---- MODULE Spec2Model ----
(***************************************************************************)
(* Draft server: the registry of connections and sessions (server side     *)
(* event handlers) and the Session object (traditional rotation draft,     *)
(* pick / burn protocol, disconnect, reconnect and bot substitution).      *)
(*                                                                         *)
(* Every handler runs to completion on the single event loop, so each      *)
(* action below is one whole handler.  Handlers are written as operators   *)
(* over a "world" record w = [C, S, out, reply, thrown]:                   *)
(*   C      the Connections table   (UserID -> Connection)                 *)
(*   S      the Sessions table      (SessionID -> Session)                 *)
(*   out    the events emitted by the handler so far                       *)
(*   reply  the value returned to the pickCard acknowledgement             *)
(*   thrown TRUE once the handler has thrown (a TypeError on an undefined  *)
(*          value, a SyntaxError of JSON.parse): nothing catches it, the   *)
(*          process ends and with it every session.                        *)
(***************************************************************************)
EXTENDS Integers, Sequences, FiniteSets, TLC

VARIABLES Connections, Sessions, request, emitted, reply, crashed, generation

vars == <<Connections, Sessions, request, emitted, reply, crashed, generation>>

-----------------------------------------------------------------------------
(* Bounds of the model *)

\* number of cards of a generated pack
PackSize == 2
\* largest value the owner sends in a 'bots' event
MaxBots == 1
\* number of boosters the card pool can fill
PoolBoosters == 4

UserIDs == {"u1", "u2"}
SessionIDs == {"s1", "s2"}
CardIDs == {1, 2}
\* values the owner sends in a 'boostersPerPlayer' event
BoosterCounts == {1}
\* values the owner sends in a 'setBurnedCardsPerRound' event
BurnCounts == {0, 1}
BotPolicies == {"first", "last"}

Null == "null"
\* an undefined boosterIndex
Undef == -1
\* an undefined card (a read past the end of a booster)
NoCard == 0
NoReply == "none"
\* the join (handshake, setSession) a handler answers: who asked for which session
NoRequest == [user |-> Null, session |-> Null]
JoinRequest(u, s) == [user |-> u, session |-> s]

-----------------------------------------------------------------------------
(* Sequences and maps *)

EmptyMap == [x \in {} |-> 0]

Range(seq) == {seq[i] : i \in 1..Len(seq)}

Includes(seq, x) == \E i \in 1..Len(seq) : seq[i] = x

\* Array.findIndex / indexOf, 0-based; -1 when absent
FindIndex(seq, x) ==
    IF Includes(seq, x)
    THEN (CHOOSE i \in 1..Len(seq) : seq[i] = x /\ \A j \in 1..(i-1) : seq[j] # x) - 1
    ELSE -1

RemoveAt(seq, i) == [j \in 1..(Len(seq)-1) |-> IF j < i THEN seq[j] ELSE seq[j+1]]

\* Array.splice(idx, 1) with a 0-based idx; a negative idx counts from the end
Splice1(seq, idx) ==
    LET start == IF idx < 0 THEN (IF Len(seq) + idx < 0 THEN 0 ELSE Len(seq) + idx) ELSE idx
    IN IF start >= Len(seq) THEN seq ELSE RemoveAt(seq, start + 1)

\* Array.splice(0, n)
DropFirst(seq, n) == IF n >= Len(seq) THEN <<>> ELSE [j \in 1..(Len(seq)-n) |-> seq[j+n]]

\* Set.delete / Set.add on a Set kept in insertion order
SetDelete(seq, x) == SelectSeq(seq, LAMBDA y : y # x)
SetAdd(seq, x) == IF Includes(seq, x) THEN seq ELSE Append(seq, x)

MapDelete(f, k) == [x \in (DOMAIN f) \ {k} |-> f[x]]
MapPut(f, k, v) == [x \in (DOMAIN f) \cup {k} |-> IF x = k THEN v ELSE f[x]]

negMod(m, n) == ((m % n) + n) % n

-----------------------------------------------------------------------------
(* Connection and Session objects *)

NewConnection ==
    [sessionID |-> Null, pickedCards |-> <<>>, pickedThisRound |-> FALSE,
     boosterIndex |-> Undef]

\* this.winstonDraftState = null
NoWinstonDraft ==
    [active |-> FALSE, players |-> <<>>, round |-> 0, cardPool |-> <<>>, hasPiles |-> FALSE,
     piles |-> <<>>, currentPile |-> 0]

NewSession(owner) ==
    [owner |-> owner, users |-> <<>>, userOrder |-> <<>>,
     boostersPerPlayer |-> 3, bots |-> 0, maxPlayers |-> 8,
     burnedCardsPerRound |-> 0,
     drafting |-> FALSE, boosters |-> <<>>, round |-> 0, boosterNumber |-> 0,
     pickedCardsThisRound |-> 0,
     \* disconnectedUsers, with its keys in insertion order
     disconnectedUsers |-> EmptyMap, disconnectedOrder |-> <<>>,
     botsInstances |-> <<>>,
     draftLog |-> [users |-> EmptyMap, bots |-> <<>>],
     maxTimer |-> 75, ticking |-> FALSE,
     winstonDraftState |-> NoWinstonDraft]

\* the events the model records (the other emits only need a live socket)
Recorded == {"setSession", "alreadyConnected", "startDraft", "nextBooster",
             "endDraft", "rejoinDraft", "setPickTimer", "setMaxPlayers",
             "setCardSelection", "Error generating boosters", "startWinstonDraft",
             "winstonDraftRandomCard", "winstonDraftEnd", "updateUser"}

Throw(w) == [w EXCEPT !.thrown = TRUE]

\* Connections[u].socket.emit(ev, arg)
Emit(w, u, ev, arg) ==
    IF w.thrown THEN w
    ELSE IF u \notin DOMAIN w.C THEN Throw(w)
    ELSE IF ev \in Recorded THEN [w EXCEPT !.out = Append(@, <<u, ev, arg>>)]
    ELSE w

RECURSIVE EmitSeq(_, _, _, _)
EmitSeq(w, us, ev, arg) ==
    IF us = <<>> THEN w ELSE EmitSeq(Emit(w, Head(us), ev, arg), Tail(us), ev, arg)

\* Session.forUsers(u => Connections[u].socket.emit(ev, arg)); ownerIsPlayer is
\* always true
forUsersEmit(w, s, ev, arg) == EmitSeq(w, w.S[s].users, ev, arg)

\* the participants still connected, without the disconnected seats
ConnectedPlayerCount(sess) == Len(sess.users)

getHumanPlayerCount(sess) == Len(sess.users) + Cardinality(DOMAIN sess.disconnectedUsers)

getVirtualPlayersCount(sess) ==
    Len(sess.users) + Cardinality(DOMAIN sess.disconnectedUsers) + sess.bots

getSortedHumanPlayers(sess) ==
    SelectSeq(sess.userOrder,
              LAMBDA e : Includes(sess.users, e) \/ e \in DOMAIN sess.disconnectedUsers)

\* the seats in distribution order: humans and bots interleaved
RECURSIVE Interleave(_, _, _, _)
Interleave(sess, humans, nBots, idx) ==
    IF idx > Len(humans) /\ idx > nBots THEN <<>>
    ELSE (IF idx <= Len(humans)
          THEN <<[isBot |-> FALSE, id |-> humans[idx], bot |-> 0,
                  disconnected |-> humans[idx] \in DOMAIN sess.disconnectedUsers]>>
          ELSE <<>>)
         \o (IF idx <= nBots
             THEN <<[isBot |-> TRUE, id |-> Null, bot |-> idx, disconnected |-> FALSE]>>
             ELSE <<>>)
         \o Interleave(sess, humans, nBots, idx + 1)

getSortedVirtualPlayers(sess) ==
    Interleave(sess, getSortedHumanPlayers(sess), Len(sess.botsInstances), 1)

\* notifyUserChange only emits, and skips the users without a connection
notifyUserChange(w, s) == w

\* a stopCountdown that leaves the interval running
countdownKept(sess) == sess

stopCountdown(sess) == [sess EXCEPT !.ticking = FALSE]

-----------------------------------------------------------------------------
(* pickedCards arrays.  A snapshot taken by removeUserFromSession holds the  *)
(* same array object as the connection (field shared) until the connection  *)
(* is given another array or is deleted.                                     *)

\* the snapshots of u no longer hold the array of u's connection
Unshare(S, u) ==
    [s \in DOMAIN S |->
        IF u \in DOMAIN S[s].disconnectedUsers
        THEN [S[s] EXCEPT !.disconnectedUsers[u].shared = FALSE]
        ELSE S[s]]

\* push on the array of u's connection
PushShared(w, u, card) ==
    [w EXCEPT
       !.C = IF u \in DOMAIN w.C
             THEN [w.C EXCEPT ![u].pickedCards = Append(@, card)]
             ELSE w.C,
       !.S = [s \in DOMAIN w.S |->
                IF u \in DOMAIN w.S[s].disconnectedUsers
                   /\ w.S[s].disconnectedUsers[u].shared
                THEN [w.S[s] EXCEPT !.disconnectedUsers[u].pickedCards = Append(@, card)]
                ELSE w.S[s]]]

\* the card a bot picked for a disconnected seat is not kept
DropSnapshot(w, s, u, card) == w

\* this.disconnectedUsers[u].pickedCards.push(card)
PushSnapshot(w, s, u, card) ==
    IF w.S[s].disconnectedUsers[u].shared
    THEN PushShared(w, u, card)
    ELSE [w EXCEPT !.S[s].disconnectedUsers[u].pickedCards = Append(@, card)]

-----------------------------------------------------------------------------
(* Countdown *)

\* this.countdownInterval = setInterval(...), after the timer event went out
setCountdownInterval(w, s) ==
    IF w.thrown THEN w ELSE [w EXCEPT !.S[s].ticking = TRUE]

resumeCountdown(w, s) ==
    IF w.thrown THEN w
    ELSE IF w.S[s].maxTimer <= 0
    THEN forUsersEmit([w EXCEPT !.S[s] = stopCountdown(@)], s, "disableTimer", 0)
    ELSE setCountdownInterval(
           forUsersEmit([w EXCEPT !.S[s] = stopCountdown(@)], s, "timer", 0), s)

startCountdown(w, s) == resumeCountdown(w, s)

emitMessage(w, s) == forUsersEmit(w, s, "message", 0)

-----------------------------------------------------------------------------
(* Bots.  Bot.pick and Bot.burn return an index of the booster; the policy  *)
(* is the bot's own.                                                          *)

CardAt(seq, idx) == IF idx >= 0 /\ idx < Len(seq) THEN seq[idx + 1] ELSE NoCard

BotIndex(booster, pol) == IF pol = "first" THEN 0 ELSE Len(booster) - 1

RECURSIVE BurnLoop(_, _, _)
BurnLoop(booster, k, pol) ==
    IF k <= 0 THEN [booster |-> booster, burned |-> <<>>]
    ELSE LET idx == BotIndex(booster, pol)
             rest == BurnLoop(Splice1(booster, idx), k - 1, pol)
         IN [booster |-> rest.booster, burned |-> <<CardAt(booster, idx)>> \o rest.burned]

\* Session.doBotPick: the session after the pick, the picked card, and whether
\* the call threw (JSON.parse of an undefined booster, or no log for the seat)
doBotPick(sess, seat, boosterIndex, pol) ==
    IF boosterIndex < 0 \/ boosterIndex >= Len(sess.boosters)
    THEN [sess |-> sess, picked |-> NoCard, thrown |-> TRUE]
    ELSE LET booster == sess.boosters[boosterIndex + 1]
             removedIdx == BotIndex(booster, pol)
             picked == CardAt(booster, removedIdx)
             b == BurnLoop(Splice1(booster, removedIdx), sess.burnedCardsPerRound, pol)
             entry == picked
             s1 == [sess EXCEPT !.boosters[boosterIndex + 1] = b.booster]
         IN IF seat.isBot
            THEN [sess |-> [s1 EXCEPT !.botsInstances[seat.bot] = Append(@, picked),
                                      !.draftLog.bots[seat.bot] = Append(@, entry)],
                  picked |-> picked, thrown |-> FALSE]
            ELSE IF seat.id \notin DOMAIN sess.draftLog.users
            THEN [sess |-> sess, picked |-> NoCard, thrown |-> TRUE]
            ELSE [sess |-> [s1 EXCEPT !.disconnectedUsers[seat.id].botCards = Append(@, picked),
                                      !.draftLog.users[seat.id] = Append(@, entry)],
                  picked |-> picked, thrown |-> FALSE]

-----------------------------------------------------------------------------
(* Traditional draft *)

RECURSIVE EndDraftSeats(_, _, _)
\* the loop of endDraft that reads every seat's log entry and picked cards
EndDraftSeats(w, s, seats) ==
    IF seats = <<>> THEN TRUE
    ELSE LET seat == Head(seats)
         IN /\ \/ seat.isBot
               \/ /\ seat.id \in DOMAIN w.S[s].draftLog.users
                  /\ seat.disconnected \/ seat.id \in DOMAIN w.C
            /\ EndDraftSeats(w, s, Tail(seats))

endDraft(w, s) ==
    LET s1 == [stopCountdown(w.S[s]) EXCEPT !.drafting = FALSE, !.boosters = <<>>]
        w1 == [w EXCEPT !.S[s] = s1]
    IN IF ~EndDraftSeats(w1, s, getSortedVirtualPlayers(s1)) THEN Throw(w1)
       ELSE forUsersEmit(forUsersEmit(w1, s, "draftLog", 0), s, "endDraft", 0)

RECURSIVE SeatLoop(_, _, _, _, _, _, _)
\* the loop of nextBooster over the virtual players
SeatLoop(w, s, seats, index, boosterOffset, total, pol) ==
    IF w.thrown \/ seats = <<>> THEN w
    ELSE
    LET seat == Head(seats)
        boosterIndex == negMod(boosterOffset + index, total)
        sess == w.S[s]
        next(w1) == SeatLoop(w1, s, Tail(seats), index + 1, boosterOffset, total, pol)
    IN IF seat.isBot
       THEN LET r == doBotPick(sess, seat, boosterIndex, pol)
            IN IF r.thrown THEN Throw(w) ELSE next([w EXCEPT !.S[s] = r.sess])
       ELSE IF seat.disconnected
       THEN LET d == sess.disconnectedUsers[seat.id]
                \* no bot yet: "That should not be possible", a new Bot is made
                s1 == IF d.hasBot THEN sess
                      ELSE [sess EXCEPT !.disconnectedUsers[seat.id].hasBot = TRUE,
                                        !.disconnectedUsers[seat.id].botCards = <<>>]
                r == doBotPick(s1, seat, boosterIndex, pol)
            IN IF r.thrown THEN Throw(w)
               ELSE LET s2 == [r.sess EXCEPT
                                 !.disconnectedUsers[seat.id].pickedThisRound = TRUE,
                                 !.disconnectedUsers[seat.id].boosterIndex = boosterIndex,
                                 !.pickedCardsThisRound = @ + 1]
                    IN next(PushSnapshot([w EXCEPT !.S[s] = s2], s, seat.id, r.picked))
       ELSE IF seat.id \notin DOMAIN w.C THEN Throw(w)
       ELSE next(Emit([w EXCEPT !.C[seat.id].pickedThisRound = FALSE,
                                !.C[seat.id].boosterIndex = boosterIndex],
                      seat.id, "nextBooster",
                      <<sess.boosterNumber, sess.round + 1>>))

\* ++this.round, the last statement of nextBooster
nextRound(w, s) ==
    IF w.thrown THEN w ELSE [w EXCEPT !.S[s].round = @ + 1]

nextBooster(w, s, pol) ==
    LET s0 == stopCountdown(w.S[s])
        totalVirtualPlayers == getVirtualPlayersCount(s0)
    IN IF Len(s0.boosters) = 0 THEN Throw(w)   \* this.boosters[0] is undefined
       ELSE
       LET s1 == IF Len(s0.boosters[1]) = 0
                 THEN [s0 EXCEPT !.round = 0,
                                 !.boosters = DropFirst(@, totalVirtualPlayers),
                                 !.boosterNumber = @ + 1]
                 ELSE s0
       IN IF Len(s1.boosters) = 0 THEN endDraft([w EXCEPT !.S[s] = s1], s)
          ELSE
          LET s2 == [s1 EXCEPT !.pickedCardsThisRound = 0]
              \* (boosters.length / totalVirtualPlayers) % 2 == 0
              evenRound == Len(s2.boosters) % (2 * totalVirtualPlayers) = 0
              boosterOffset == IF evenRound THEN -s2.round ELSE s2.round
          IN nextRound(
               startCountdown(
                 SeatLoop([w EXCEPT !.S[s] = s2], s, getSortedVirtualPlayers(s2), 0,
                          boosterOffset, totalVirtualPlayers, pol),
                 s),
               s)

\* generateBoosters: the packs drawn depend on the card pool and on Math.random;
\* gen is the outcome, "shortage" (not enough cards, return false) or the shape
\* of the packs drawn
PackShapes == {p \in [1..PackSize -> CardIDs] : p[1] = 1}
GenOutcomes ==
    {[ok |-> FALSE, pack |-> <<>>]} \cup {[ok |-> TRUE, pack |-> p] : p \in PackShapes}

\* the number of boosters the collection can fill: PoolBoosters, unless the
\* outcome names a collection of another size
PoolOf(gen) == IF "pool" \in DOMAIN gen THEN gen.pool ELSE PoolBoosters

\* generateBoosters emits no message when it fails
generateSilently(w, s, boosterQuantity, gen) ==
    IF ~gen.ok \/ boosterQuantity > PoolOf(gen) THEN w
    ELSE [w EXCEPT !.S[s].boosters = [i \in 1..boosterQuantity |-> gen.pack]]

generateBoosters(w, s, boosterQuantity, gen) ==
    IF ~gen.ok \/ boosterQuantity > PoolOf(gen)
    THEN forUsersEmit(w, s, "Error generating boosters", 0)
    ELSE [w EXCEPT !.S[s].boosters = [i \in 1..boosterQuantity |-> gen.pack]]

RECURSIVE StartDraftUnannounced(_, _)
\* a start of the draft that tells no participant
StartDraftUnannounced(w, us) ==
    IF w.thrown \/ us = <<>> THEN w
    ELSE IF Head(us) \notin DOMAIN w.C THEN Throw(w)
    ELSE StartDraftUnannounced(
           [w EXCEPT !.C[Head(us)].pickedCards = <<>>, !.S = Unshare(@, Head(us))],
           Tail(us))

RECURSIVE StartDraftUsers(_, _)
\* the loop of startDraft over this.users
StartDraftUsers(w, us) ==
    IF w.thrown \/ us = <<>> THEN w
    ELSE LET u == Head(us)
         IN IF u \notin DOMAIN w.C THEN Throw(w)
            ELSE StartDraftUsers(
                   Emit([w EXCEPT !.C[u].pickedCards = <<>>, !.S = Unshare(@, u)],
                        u, "startDraft", 0),
                   Tail(us))

\* Session.startDraft
startDraft(w, s, gen, pol) ==
    LET w1 == emitMessage([w EXCEPT !.S[s].drafting = TRUE], s)
        sess == w1.S[s]
        boosterQuantity == (Len(sess.users) + sess.bots) * sess.boostersPerPlayer
        s2 == [sess EXCEPT !.disconnectedUsers = EmptyMap,
                           !.disconnectedOrder = <<>>,
                           !.botsInstances = [i \in 1..sess.bots |-> <<>>]]
        w2 == generateBoosters([w1 EXCEPT !.S[s] = s2], s, boosterQuantity, gen)
    IN IF w1.thrown THEN w1
       ELSE IF sess.bots > 0 /\ sess.users = <<>> THEN Throw(w1)
       ELSE IF w2.thrown THEN w2
       ELSE IF ~gen.ok \/ boosterQuantity > PoolOf(gen)
       THEN [w2 EXCEPT !.S[s].drafting = FALSE]
       ELSE
       LET humans == getSortedHumanPlayers(w2.S[s])
           log == [users |-> [u \in Range(humans) |-> <<>>],
                   bots |-> [i \in 1..sess.bots |-> <<>>]]
           w3 == StartDraftUsers([w2 EXCEPT !.S[s].draftLog = log], w2.S[s].users)
       IN IF w3.thrown THEN w3
          ELSE nextBooster([w3 EXCEPT !.S[s].round = 0, !.S[s].boosterNumber = 1], s, pol)

-----------------------------------------------------------------------------
(* Booster generation from the collection, without a custom card list *)

\* The cards of the collection by what generateBoosters reads of them: their
\* rarity and, for the commons, their color identity (M: any identity that is
\* not one of the five colors alone)
Colors == <<"W", "U", "B", "R", "G">>
CommonKinds == {"W", "U", "B", "R", "G", "M"}
Kinds == {"mythic", "rare", "uncommon"} \cup CommonKinds
\* what pick_card returns from an empty dictionary
Undefined == "undefined"

\* no generateBoosters call is followed
NoGeneration == [phase |-> "none"]

\* count_cards(localCollection["common"])
CommonCount(coll) ==
    coll["W"] + coll["U"] + coll["B"] + coll["R"] + coll["G"] + coll["M"]

\* switch (this.maxRarity): the targets of a booster
Targets(maxRarity) ==
    IF maxRarity = "uncommon" THEN [rare |-> 0, uncommon |-> 3, common |-> 11]
    ELSE IF maxRarity = "common" THEN [rare |-> 0, uncommon |-> 0, common |-> 14]
    ELSE [rare |-> 1, uncommon |-> 3, common |-> 10]

\* "Making sure we have enough cards of each rarity"
NotEnoughCards(coll, maxRarity, boosterQuantity) ==
    \/ CommonCount(coll) < Targets(maxRarity).common * boosterQuantity
    \/ coll["uncommon"] < Targets(maxRarity).uncommon * boosterQuantity
    \/ coll["rare"] + coll["mythic"] < Targets(maxRarity).rare * boosterQuantity

EmptyBooster == [k \in Kinds \cup {Undefined} |-> 0]

\* a booster in the making: the collection left, the cards pushed, the foils
\* added, and whether the call goes on, has returned false or has thrown
Making(coll, booster, addedFoils, status) ==
    [coll |-> coll, booster |-> booster, addedFoils |-> addedFoils, status |-> status]

\* pick_card(dict) for the cards of kind k: a card of the kind leaves the
\* collection and joins the booster; from an empty dictionary the key is
\* undefined, and the card utilities may throw on it
PickCardOfKind(m, k) ==
    IF m.status # "ok" THEN {m}
    ELSE IF m.coll[k] > 0
    THEN {[m EXCEPT !.coll[k] = @ - 1, !.booster[k] = @ + 1]}
    ELSE {[m EXCEPT !.booster[Undefined] = @ + 1], [m EXCEPT !.status = "thrown"]}

\* the rarities of foilRarityFreq from r on, in the order of the loop
FoilOrder == <<"mythic", "rare", "uncommon", "common">>

\* the kinds of cards the foil may be when rarityCheck falls in the band of
\* the rarity at position from: the first rarity with cards left
RECURSIVE FoilKinds(_, _)
FoilKinds(coll, from) ==
    IF from > 4 THEN {}
    ELSE IF from = 4 THEN {k \in CommonKinds : coll[k] > 0}
    ELSE IF coll[FoilOrder[from]] > 0 THEN {FoilOrder[from]}
    ELSE FoilKinds(coll, from + 1)

\* if (this.foil && Math.random() <= foilFrequency) ...
WithFoil(m, foil) ==
    {m} \cup
    IF ~foil THEN {}
    ELSE {[m EXCEPT !.coll[k] = @ - 1, !.booster[k] = @ + 1, !.addedFoils = 1] :
             k \in UNION {FoilKinds(m.coll, from) : from \in 1..4}}

\* the rare slot: "1 Rare/Mythic"
WithRare(m, maxRarity) ==
    IF m.status # "ok" \/ Targets(maxRarity).rare = 0 THEN {m}
    ELSE IF m.coll["mythic"] = 0 /\ m.coll["rare"] = 0 THEN {[m EXCEPT !.status = "failed"]}
    ELSE IF m.coll["mythic"] = 0 THEN PickCardOfKind(m, "rare")
    ELSE IF maxRarity = "mythic" /\ m.coll["rare"] = 0 THEN PickCardOfKind(m, "mythic")
    ELSE IF maxRarity = "mythic"
    THEN PickCardOfKind(m, "mythic") \cup PickCardOfKind(m, "rare")
    ELSE PickCardOfKind(m, "rare")

RECURSIVE WithUncommons(_, _)
\* for (let i = 0; i < targets["uncommon"]; ++i) booster.push(pick_card(...))
WithUncommons(m, n) ==
    IF n = 0 THEN {m}
    ELSE UNION {WithUncommons(m1, n - 1) : m1 \in PickCardOfKind(m, "uncommon")}

RECURSIVE WithColors(_, _)
\* the color balancing: one common of each color that has commons left
WithColors(m, colors) ==
    IF colors = <<>> \/ m.status # "ok" THEN m
    ELSE IF m.coll[Head(colors)] > 0
    THEN WithColors([m EXCEPT !.coll[Head(colors)] = @ - 1,
                              !.booster[Head(colors)] = @ + 1], Tail(colors))
    ELSE WithColors(m, Tail(colors))

\* the smaller of two numbers
Least(a, b) == IF a < b THEN a ELSE b

\* the ways of picking n commons from the collection
CommonPicks(coll, n) ==
    {p \in {[W |-> w, U |-> u, B |-> b, R |-> r, G |-> g, M |-> n - (w + u + b + r + g)] :
               w \in 0..Least(coll["W"], n), u \in 0..Least(coll["U"], n),
               b \in 0..Least(coll["B"], n), r \in 0..Least(coll["R"], n),
               g \in 0..Least(coll["G"], n)} :
        p["M"] >= 0 /\ p["M"] <= coll["M"]}

\* the commons that fill the booster up to targets["common"] - addedFoils
WithCommons(m, already, maxRarity) ==
    LET n == Targets(maxRarity).common - m.addedFoils - already
    IN IF m.status # "ok" \/ n <= 0 THEN {m}
       ELSE IF CommonCount(m.coll) < n
       THEN {[m EXCEPT !.booster[Undefined] = @ + 1], [m EXCEPT !.status = "thrown"]}
       ELSE {[m EXCEPT !.coll = [k \in Kinds |-> IF k \in CommonKinds THEN @[k] - p[k] ELSE @[k]],
                       !.booster = [k \in Kinds \cup {Undefined} |->
                                       IF k \in CommonKinds THEN @[k] + p[k] ELSE @[k]]] :
                p \in CommonPicks(m.coll, n)}

\* the commons of a booster: color balanced when asked, then filled
WithAllCommons(m, colorBalance, maxRarity) ==
    IF colorBalance
    THEN WithCommons(WithColors(m, Colors),
                     CommonCount(m.coll) - CommonCount(WithColors(m, Colors).coll),
                     maxRarity)
    ELSE WithCommons(m, 0, maxRarity)

\* one turn of the loop "Generate Boosters": the boosters it may make of the
\* collection coll
BoosterOutcomes(coll, maxRarity, foil, colorBalance) ==
    UNION {WithAllCommons(m3, colorBalance, maxRarity) :
             m3 \in UNION {WithUncommons(m2, Targets(maxRarity).uncommon) :
                      m2 \in UNION {WithRare(m1, maxRarity) :
                               m1 \in WithFoil(Making(coll, EmptyBooster, 0, "ok"), foil)}}}

\* Session.generateBoosters(boosterQuantity) is called: the checks of the
\* collection, then this.boosters = []
CallGenerateBoosters ==
    /\ generation.phase = "called"
    /\ generation' =
          IF NotEnoughCards(generation.coll, generation.maxRarity, generation.boosterQuantity)
          THEN [generation EXCEPT !.phase = "failed"]
          ELSE [generation EXCEPT !.phase = "generating", !.boosters = <<>>]
    /\ UNCHANGED <<Connections, Sessions, request, emitted, reply, crashed>>

\* one turn of the loop of generateBoosters: a booster is pushed, or the call
\* returns false, or throws; after the last turn the call returns true
GenerateBooster ==
    /\ generation.phase = "generating"
    /\ IF Len(generation.boosters) = generation.boosterQuantity
       THEN generation' = [generation EXCEPT !.phase = "done"]
       ELSE \E m \in BoosterOutcomes(generation.coll, generation.maxRarity,
                                     generation.foil, generation.colorBalance) :
               generation' =
                  IF m.status = "ok"
                  THEN [generation EXCEPT !.coll = m.coll,
                                          !.boosters = Append(@, m.booster)]
                  ELSE [generation EXCEPT !.phase = m.status]
    /\ UNCHANGED <<Connections, Sessions, request, emitted, reply, crashed>>

-----------------------------------------------------------------------------
(* Winston draft *)

RECURSIVE Flatten(_)
\* for (let booster of boosters) this.cardPool.push(...booster)
Flatten(boosters) ==
    IF boosters = <<>> THEN <<>> ELSE Head(boosters) \o Flatten(Tail(boosters))

\* the orders shuffleArray may leave the cards in
Shuffles(cards) ==
    {p \in [1..Len(cards) -> Range(cards)] :
        \A c \in Range(cards) :
            Cardinality({i \in 1..Len(cards) : p[i] = c})
               = Cardinality({i \in 1..Len(cards) : cards[i] = c})}

\* new WinstonDraftState(players, boosters), cardPool being the shuffled cards:
\* three piles of one card are popped off when there are three cards
WinstonDraftState(players, cardPool) ==
    LET n == Len(cardPool)
    IN IF n >= 3
       THEN [active |-> TRUE, players |-> players, round |-> 0 - 1, cardPool |-> SubSeq(cardPool, 1, n - 3),
             hasPiles |-> TRUE,
             piles |-> << <<cardPool[n]>>, <<cardPool[n - 1]>>, <<cardPool[n - 2]>> >>,
             currentPile |-> 0]
       ELSE [active |-> TRUE, players |-> players, round |-> 0 - 1, cardPool |-> cardPool, hasPiles |-> FALSE,
             piles |-> <<>>, currentPile |-> 0]

\* an end of the Winston draft that tells no participant
endWinstonSilently(w, s) ==
    [w EXCEPT !.S[s].winstonDraftState = NoWinstonDraft, !.S[s].drafting = FALSE]

\* Session.endWinstonDraft
endWinstonDraft(w, s) ==
    [forUsersEmit(w, s, "winstonDraftEnd", 0)
       EXCEPT !.S[s].winstonDraftState = NoWinstonDraft, !.S[s].drafting = FALSE]

\* a round that starts on pile 0 whatever the piles hold
PileZero(piles) == 0

\* while (s.currentPile < 3 && !s.piles[s.currentPile].length) ++s.currentPile
FirstPile(piles) ==
    IF piles[1] # <<>> THEN 0 ELSE IF piles[2] # <<>> THEN 1
    ELSE IF piles[3] # <<>> THEN 2 ELSE 3

\* Session.winstonNextRound; reading a pile throws when there are no piles
winstonNextRound(w, s) ==
    IF w.thrown THEN w
    ELSE IF ~w.S[s].winstonDraftState.hasPiles THEN Throw(w)
    ELSE IF FirstPile(w.S[s].winstonDraftState.piles) >= 3
    THEN endWinstonDraft([w EXCEPT !.S[s].winstonDraftState.round = @ + 1,
                                   !.S[s].winstonDraftState.currentPile = 3], s)
    ELSE forUsersEmit(
           forUsersEmit([w EXCEPT !.S[s].winstonDraftState.round = @ + 1,
                                  !.S[s].winstonDraftState.currentPile =
                                      FirstPile(w.S[s].winstonDraftState.piles)],
                        s, "winstonDraftSync", 0),
           s, "winstonDraftNextRound", 0)

\* WinstonDraftState.currentPlayer: this.players[this.round % 2]
currentPlayer(st) == st.players[(st.round % 2) + 1]

\* array.pop(): the last element, and what is left of the array
Popped(array) == IF array = <<>> THEN Undef ELSE array[Len(array)]
AfterPop(array) == IF array = <<>> THEN <<>> ELSE SubSeq(array, 1, Len(array) - 1)

\* the test of winstonSkipPile that the player has another pile to pick when
\* the card pool is empty
MustTake(st) ==
    /\ st.cardPool = <<>>
    /\ \/ st.currentPile = 0 /\ st.piles[2] = <<>> /\ st.piles[3] = <<>>
       \/ st.currentPile = 1 /\ st.piles[3] = <<>>
       \/ st.currentPile = 2

\* a skip that adds no card to the skipped pile
SkippedPileUnfed(st) == st

\* winstonSkipPile: a card of the pool is added to the skipped pile, unless
\* it is the last card and this is the last pile
SkippedPile(st) ==
    IF Len(st.cardPool) > 1 \/ (st.currentPile < 2 /\ Len(st.cardPool) > 0)
    THEN [st EXCEPT !.piles[st.currentPile + 1] = Append(@, Popped(st.cardPool)),
                    !.cardPool = AfterPop(@)]
    ELSE st

RECURSIVE winstonSkipPile(_, _)
\* Session.winstonSkipPile
winstonSkipPile(w, s) ==
    IF w.thrown THEN w
    ELSE IF ~w.S[s].drafting \/ ~w.S[s].winstonDraftState.active THEN w
    ELSE IF ~w.S[s].winstonDraftState.hasPiles THEN Throw(w)
    ELSE IF MustTake(w.S[s].winstonDraftState) THEN w
    ELSE IF w.S[s].winstonDraftState.currentPile = 2
    THEN winstonNextRound(
           Emit([w EXCEPT !.S[s].winstonDraftState =
                             [SkippedPile(@) EXCEPT !.cardPool = AfterPop(@)]],
                currentPlayer(w.S[s].winstonDraftState), "winstonDraftRandomCard",
                Popped(SkippedPile(w.S[s].winstonDraftState).cardPool)),
           s)
    ELSE IF SkippedPile(w.S[s].winstonDraftState).piles[
                w.S[s].winstonDraftState.currentPile + 2] = <<>>
    THEN winstonSkipPile([w EXCEPT !.S[s].winstonDraftState =
                                      [SkippedPile(@) EXCEPT !.currentPile = @ + 1]], s)
    ELSE forUsersEmit([w EXCEPT !.S[s].winstonDraftState =
                                   [SkippedPile(@) EXCEPT !.currentPile = @ + 1]],
                      s, "winstonDraftSync", 0)

\* Session.winstonTakePile
winstonTakePile(w, s) ==
    IF w.thrown THEN w
    ELSE IF ~w.S[s].drafting \/ ~w.S[s].winstonDraftState.active THEN w
    ELSE IF ~w.S[s].winstonDraftState.hasPiles THEN Throw(w)
    ELSE IF currentPlayer(w.S[s].winstonDraftState) \notin DOMAIN w.C THEN Throw(w)
    ELSE winstonNextRound(
           [w EXCEPT !.C[currentPlayer(w.S[s].winstonDraftState)].pickedCards =
                        @ \o w.S[s].winstonDraftState.piles[
                                 w.S[s].winstonDraftState.currentPile + 1],
                     !.S[s].winstonDraftState.piles[
                          w.S[s].winstonDraftState.currentPile + 1] =
                        IF w.S[s].winstonDraftState.cardPool = <<>> THEN <<>>
                        ELSE <<Popped(w.S[s].winstonDraftState.cardPool)>>,
                     !.S[s].winstonDraftState.cardPool = AfterPop(@)],
           s)

RECURSIVE StartWinstonUsers(_, _)
\* the loop of startWinstonDraft over this.users
StartWinstonUsers(w, us) ==
    IF w.thrown \/ us = <<>> THEN w
    ELSE IF Head(us) \notin DOMAIN w.C THEN Throw(w)
    ELSE StartWinstonUsers(
           Emit(Emit([w EXCEPT !.C[Head(us)].pickedCards = <<>>,
                               !.S = Unshare(@, Head(us))],
                     Head(us), "sessionOptions", 0),
                Head(us), "startWinstonDraft", 0),
           Tail(us))

\* Session.startWinstonDraft; cardPool is the order the shuffle leaves
startWinstonDraft(w, s, boosterCount, gen, cardPool) ==
    IF Len(w.S[s].users) # 2 THEN w
    ELSE IF ~gen.ok \/ boosterCount > PoolBoosters
    THEN [generateBoosters(emitMessage([w EXCEPT !.S[s].drafting = TRUE], s),
                           s, boosterCount, gen)
            EXCEPT !.S[s].drafting = FALSE]
    ELSE winstonNextRound(
           StartWinstonUsers(
             [generateBoosters(emitMessage([w EXCEPT !.S[s].drafting = TRUE], s),
                               s, boosterCount, gen)
                EXCEPT !.S[s].disconnectedUsers = EmptyMap,
                       !.S[s].disconnectedOrder = <<>>,
                       !.S[s].winstonDraftState =
                           WinstonDraftState(
                             getSortedHumanPlayers(
                               [w.S[s] EXCEPT !.disconnectedUsers = EmptyMap]),
                             cardPool)],
             w.S[s].users),
           s)

RECURSIVE BurnCards(_, _)
\* the loop of pickCard that removes the burned cards
BurnCards(booster, burnedCards) ==
    IF burnedCards = <<>> THEN booster
    ELSE BurnCards(Splice1(booster, FindIndex(booster, Head(burnedCards))),
                   Tail(burnedCards))

\* the burnedCards argument: an array, or omitted (undefined)
NoBurnList == [given |-> FALSE, cards |-> <<>>]
BurnList(cards) == [given |-> TRUE, cards |-> cards]

\* the check pickCard makes of the burned cards
InvalidBurn(sess, booster, burnedCards) ==
    /\ burnedCards.given
    /\ \/ Len(burnedCards.cards) > sess.burnedCardsPerRound
       \/ /\ Len(burnedCards.cards) # sess.burnedCardsPerRound
          /\ Len(booster) # 1 + Len(burnedCards.cards)
       \/ \E i \in 1..Len(burnedCards.cards) : ~Includes(booster, burnedCards.cards[i])

Answer(w, u, code) == [w EXCEPT !.reply = code]

\* a rejection that has already marked the participant as having picked
RejectMarked(w, u) == [Answer(w, u, "1") EXCEPT !.C[u].pickedThisRound = TRUE]

\* return { code: 1, error: err }
Reject(w, u) == Answer(w, u, "1")

\* Session.pickCard
pickCard(w, s, userID, cardID, burnedCards, pol) ==
    LET sess == w.S[s]
    IN
    IF ~sess.drafting \/ ~Includes(sess.users, userID) THEN Answer(w, userID, "undefined")
    ELSE IF userID \notin DOMAIN w.C THEN Throw(w)
    ELSE
    LET boosterIndex == w.C[userID].boosterIndex
    IN
    IF boosterIndex < 0 \/ boosterIndex >= Len(sess.boosters) THEN Reject(w, userID)
    ELSE
    LET booster == sess.boosters[boosterIndex + 1]
    IN
    IF ~Includes(booster, cardID) THEN Reject(w, userID)
    ELSE IF w.C[userID].pickedThisRound THEN Reject(w, userID)
    ELSE IF InvalidBurn(sess, booster, burnedCards) THEN Reject(w, userID)
    ELSE IF userID \notin DOMAIN sess.draftLog.users THEN Throw(w)
    ELSE
    LET entry == cardID
        afterPick == Splice1(booster, FindIndex(booster, cardID))
        afterBurn == IF burnedCards.given THEN BurnCards(afterPick, burnedCards.cards)
                     ELSE afterPick
        w1 == PushShared([w EXCEPT !.S[s].draftLog.users[userID] = Append(@, entry)],
                         userID, cardID)
        w2 == [w1 EXCEPT !.C[userID].pickedThisRound = TRUE,
                         !.S[s].boosters[boosterIndex + 1] = afterBurn]
        w3 == forUsersEmit(w2, s, "updateUser", userID)
        w4 == IF w3.thrown THEN w3
              ELSE [w3 EXCEPT !.S[s].pickedCardsThisRound = @ + 1]
        w5 == IF w4.thrown THEN w4
              ELSE IF w4.S[s].pickedCardsThisRound = getHumanPlayerCount(w4.S[s])
              THEN nextBooster(w4, s, pol)
              ELSE w4
    IN IF w5.thrown THEN w5 ELSE Answer(w5, userID, "0")

RECURSIVE ReplaceLoop(_, _, _, _)
\* the loop of replaceDisconnectedPlayers over the keys of disconnectedUsers
ReplaceLoop(w, s, uids, pol) ==
    IF w.thrown \/ uids = <<>> THEN w
    ELSE
    LET uid == Head(uids)
        d == w.S[s].disconnectedUsers[uid]
        \* a new Bot, fed the cards picked so far
        s1 == [w.S[s] EXCEPT !.disconnectedUsers[uid].hasBot = TRUE,
                             !.disconnectedUsers[uid].botCards = d.pickedCards]
        seat == [isBot |-> FALSE, id |-> uid, bot |-> 0, disconnected |-> TRUE]
    IN IF d.pickedThisRound THEN ReplaceLoop([w EXCEPT !.S[s] = s1], s, Tail(uids), pol)
       ELSE
       LET r == doBotPick(s1, seat, d.boosterIndex, pol)
           w1 == PushSnapshot([w EXCEPT !.S[s] = r.sess], s, uid, r.picked)
           w2 == [w1 EXCEPT !.S[s].disconnectedUsers[uid].pickedThisRound = TRUE,
                            !.S[s].pickedCardsThisRound = @ + 1]
           w3 == IF w2.S[s].pickedCardsThisRound = getHumanPlayerCount(w2.S[s])
                 THEN nextBooster(w2, s, pol)
                 ELSE w2
       IN IF r.thrown THEN Throw(w) ELSE ReplaceLoop(w3, s, Tail(uids), pol)

\* Session.replaceDisconnectedPlayers
replaceDisconnectedPlayers(w, s, pol) ==
    IF ~w.S[s].drafting \/ w.S[s].winstonDraftState.active THEN w
    ELSE emitMessage(
           resumeCountdown(
             notifyUserChange(
               forUsersEmit(ReplaceLoop(w, s, w.S[s].disconnectedOrder, pol),
                            s, "sessionOptions", 0),
               s),
             s),
           s)

-----------------------------------------------------------------------------
(* Registry: joining and leaving sessions *)

\* Session.addUser
addUser(w, s, userID) ==
    LET w1 == [w EXCEPT !.C[userID].sessionID = s,
                        !.S[s].users = SetAdd(@, userID),
                        !.S[s].userOrder = SetAdd(@, userID)]
    IN Emit(notifyUserChange(w1, s), userID, "sessionOptions", 0)

\* a leaver of a drafting session that is not recorded
Forgotten(sess, userID, snapshot) == sess

\* this.disconnectedUsers[userID] = snapshot
Disconnected(sess, userID, snapshot) ==
    [sess EXCEPT !.disconnectedUsers = MapPut(@, userID, snapshot),
                 !.disconnectedOrder = SetAdd(@, userID)]

\* removeUserFromSession: the snapshot holds pickedThisRound and pickedCards only
removeUserFromSession(w, userID) ==
    IF userID \notin DOMAIN w.C THEN Throw(w)
    ELSE
    LET sessionID == w.C[userID].sessionID
    IN
    IF ~(sessionID \in DOMAIN w.S /\ Includes(w.S[sessionID].users, userID)) THEN w
    ELSE
    LET sess == w.S[sessionID]
        snapshot == [pickedThisRound |-> w.C[userID].pickedThisRound,
                     pickedCards |-> w.C[userID].pickedCards,
                     boosterIndex |-> Undef,
                     hasBot |-> FALSE, botCards |-> <<>>, shared |-> TRUE]
        s1 == IF sess.drafting
              THEN Disconnected(stopCountdown(sess), userID, snapshot)
              ELSE sess
        s2 == [s1 EXCEPT !.users = SetDelete(@, userID)]
        C1 == [w.C EXCEPT ![userID].sessionID = Null]
    IN IF s2.users = <<>>
       THEN [w EXCEPT !.C = C1, !.S = MapDelete(@, sessionID)]
       ELSE LET s3 == IF s2.owner = userID THEN [s2 EXCEPT !.owner = s2.users[1]] ELSE s2
            IN notifyUserChange([w EXCEPT !.C = C1, !.S[sessionID] = s3], sessionID)

addUserToSession(w, userID, sessionID) ==
    LET w1 == IF w.C[userID].sessionID # Null THEN removeUserFromSession(w, userID) ELSE w
        w2 == IF sessionID \in DOMAIN w1.S THEN w1
              ELSE [w1 EXCEPT !.S = MapPut(@, sessionID, NewSession(userID))]
    IN IF w1.thrown THEN w1 ELSE addUser(w2, sessionID, userID)

\* Session.resumeDraft
resumeDraft(w, s) ==
    IF w.S[s].winstonDraftState.active
    THEN emitMessage(forUsersEmit(w, s, "sessionOptions", 0), s)
    ELSE emitMessage(resumeCountdown(forUsersEmit(w, s, "sessionOptions", 0), s), s)

\* Session.reconnectUser (traditional draft)
reconnectUser(w, s, userID) ==
    LET d == w.S[s].disconnectedUsers[userID]
        w1 == IF w.S[s].winstonDraftState.active
              THEN [w EXCEPT !.C[userID].pickedCards = d.pickedCards,
                             !.S = Unshare(@, userID)]
              ELSE [w EXCEPT !.C[userID].pickedThisRound = d.pickedThisRound,
                             !.C[userID].pickedCards = d.pickedCards,
                             !.C[userID].boosterIndex = d.boosterIndex,
                             !.S = Unshare(@, userID)]
        w2 == IF w.S[s].winstonDraftState.active
              THEN Emit(addUser(w1, s, userID), userID, "rejoinWinstonDraft", 0)
              ELSE Emit(addUser(w1, s, userID), userID, "rejoinDraft", d.boosterIndex)
        w3 == [w2 EXCEPT !.S[s].disconnectedUsers = MapDelete(@, userID),
                         !.S[s].disconnectedOrder = SetDelete(@, userID)]
    IN IF w2.thrown THEN w2
       ELSE IF DOMAIN w3.S[s].disconnectedUsers = {} THEN resumeDraft(w3, s)
       ELSE forUsersEmit(w3, s, "userDisconnected", 0)

\* a join that does not look at the state of the session
joinAnyway(w, sessionID, userID, fresh) == addUserToSession(w, userID, sessionID)

\* the session id a refused participant is sent: the previous session, or a new
\* shortguid() (fresh; the handler cannot be modelled when no id is left)
Fallback(w, userID, fresh) ==
    LET target == IF w.C[userID].sessionID = Null THEN fresh ELSE w.C[userID].sessionID
    IN IF target = Null THEN [w EXCEPT !.blocked = TRUE]
       ELSE Emit(Emit(w, userID, "message", 0), userID, "setSession", target)

joinSession(w, sessionID, userID, fresh) ==
    IF sessionID \in DOMAIN w.S /\ w.S[sessionID].drafting
    THEN IF userID \in DOMAIN w.S[sessionID].disconnectedUsers
         THEN reconnectUser(w, sessionID, userID)
         ELSE Fallback(w, userID, fresh)
    ELSE IF sessionID \in DOMAIN w.S
            /\ getHumanPlayerCount(w.S[sessionID]) >= w.S[sessionID].maxPlayers
    THEN Fallback(w, userID, fresh)
    ELSE addUserToSession(w, userID, sessionID)

\* the ids shortguid() and uuidv1() may return: ones not in use
FreshSessions(S) ==
    IF SessionIDs \ DOMAIN S = {} THEN {Null} ELSE SessionIDs \ DOMAIN S

-----------------------------------------------------------------------------
(* The state machine *)

World ==
    [C |-> Connections, S |-> Sessions, out |-> <<>>, reply |-> NoReply,
     thrown |-> FALSE, blocked |-> FALSE]

\* the state a handler leaves; a handler that throws ends the process
Commit(req, w) ==
    /\ ~w.blocked
    /\ request' = req
    /\ generation' = generation
    /\ IF w.thrown
       THEN /\ crashed' = TRUE
            /\ Connections' = EmptyMap
            /\ Sessions' = EmptyMap
            /\ emitted' = <<>>
            /\ reply' = NoReply
       ELSE /\ Connections' = w.C
            /\ Sessions' = w.S
            /\ emitted' = w.out
            /\ reply' = w.reply
            /\ UNCHANGED crashed

Init ==
    /\ generation = NoGeneration
    /\ Connections = EmptyMap
    /\ Sessions = EmptyMap
    /\ request = NoRequest
    /\ emitted = <<>>
    /\ reply = NoReply
    /\ crashed = FALSE

\* the ids some session remembers: uuidv1() returns none of them
UsedIDs(S) ==
    UNION {Range(S[s].users) \cup Range(S[s].userOrder) \cup DOMAIN S[s].disconnectedUsers
             \cup DOMAIN S[s].draftLog.users : s \in DOMAIN S}

\* the connection is registered under the id of the handshake
keepID(queryID, userID) == userID = queryID

\* query.userID = uuidv1() when the id of the handshake is already connected
mintID(queryID, userID) ==
    IF queryID \in DOMAIN Connections
    THEN userID \notin DOMAIN Connections \cup UsedIDs(Sessions)
    ELSE userID = queryID

\* io.on('connection'): the handshake {userID, sessionID}
Connect(queryID, sessionID) ==
    /\ ~crashed
    /\ \E userID \in UserIDs, fresh \in FreshSessions(Sessions) :
        /\ mintID(queryID, userID)
        /\ LET w1 == [World EXCEPT !.C = MapPut(@, userID, NewConnection)]
               w2 == IF queryID \in DOMAIN Connections
                     THEN Emit(w1, userID, "alreadyConnected", userID)
                     ELSE w1
           IN Commit(JoinRequest(userID, sessionID),
                     joinSession(w2, sessionID, userID, fresh))

\* socket.on('disconnect')
Disconnect(userID) ==
    /\ ~crashed
    /\ userID \in DOMAIN Connections
    /\ LET w1 == removeUserFromSession(World, userID)
       IN Commit(NoRequest, [w1 EXCEPT !.C = MapDelete(@, userID), !.S = Unshare(@, userID)])

\* socket.on('setSession')
SetSession(userID, sessionID) ==
    /\ ~crashed
    /\ userID \in DOMAIN Connections
    /\ \E fresh \in FreshSessions(Sessions) :
        IF sessionID = Connections[userID].sessionID
        THEN Commit(JoinRequest(userID, sessionID), World)
        ELSE Commit(JoinRequest(userID, sessionID),
                    joinSession(World, sessionID, userID, fresh))

\* every handler starts with Sessions[Connections[userID].sessionID], which
\* throws when the participant is in no session
InSession(userID) == Connections[userID].sessionID \in DOMAIN Sessions

\* socket.on('startDraft')
StartDraft(userID, gen, pol) ==
    /\ ~crashed
    /\ userID \in DOMAIN Connections
    /\ IF ~InSession(userID) THEN Commit(NoRequest, Throw(World))
       ELSE LET s == Connections[userID].sessionID
                sess == Sessions[s]
            IN IF sess.owner # userID \/ sess.drafting THEN Commit(NoRequest, World)
               ELSE IF Len(sess.users) + sess.bots >= 2
               THEN Commit(NoRequest, startDraft(World, s, gen, pol))
               ELSE Commit(NoRequest, Emit(World, userID, "message", 0))

\* the pickCard event: the participant's session is looked up and
\* Session.pickCard answers the acknowledgement
PickCard(userID, cardID, burnedCards, pol) ==
    /\ ~crashed
    /\ userID \in DOMAIN Connections
    /\ IF ~InSession(userID) THEN Commit(NoRequest, World)
       ELSE Commit(NoRequest,
                   pickCard(World, Connections[userID].sessionID, userID, cardID,
                            burnedCards, pol))

\* an owner-gated option handler: the option is set when the value differs
SetOption(userID, option, value) ==
    /\ ~crashed
    /\ userID \in DOMAIN Connections
    /\ IF ~InSession(userID) THEN Commit(NoRequest, Throw(World))
       ELSE LET s == Connections[userID].sessionID
                sess == Sessions[s]
            IN IF sess.owner # userID \/ value = sess[option] THEN Commit(NoRequest, World)
               ELSE Commit(NoRequest,
                           forUsersEmit([World EXCEPT !.S[s][option] = value], s, "option", 0))

\* socket.on('bots')
SetBots(userID, bots) == SetOption(userID, "bots", bots)

\* socket.on('boostersPerPlayer')
SetBoostersPerPlayer(userID, boostersPerPlayer) ==
    SetOption(userID, "boostersPerPlayer", boostersPerPlayer)

\* the setBurnedCardsPerRound event
SetBurnedCardsPerRound(userID, burnedCardsPerRound) ==
    SetOption(userID, "burnedCardsPerRound", burnedCardsPerRound)

\* socket.on('removePlayer')
RemovePlayer(ownerID, userID, pol) ==
    /\ ~crashed
    /\ ownerID \in DOMAIN Connections
    /\ IF ~InSession(ownerID) THEN Commit(NoRequest, Throw(World))
       ELSE LET s == Connections[ownerID].sessionID
                sess == Sessions[s]
            IN IF sess.owner # ownerID \/ userID = sess.owner \/ ~Includes(sess.users, userID)
               THEN Commit(NoRequest, World)
               ELSE LET w1 == removeUserFromSession(World, userID)
                        w2 == IF w1.thrown THEN w1
                              ELSE IF s \notin DOMAIN w1.S THEN Throw(w1)
                              ELSE replaceDisconnectedPlayers(w1, s, pol)
                    IN \E newSession \in FreshSessions(w1.S) :
                        IF w2.thrown THEN Commit(NoRequest, w2)
                        ELSE IF newSession = Null THEN FALSE
                        ELSE Commit(NoRequest, Emit(Emit(joinSession(w2, newSession, userID, Null),
                                              userID, "setSession", newSession),
                                         userID, "message", 0))

\* socket.on('replaceDisconnectedPlayers')
ReplaceDisconnectedPlayers(userID, pol) ==
    /\ ~crashed
    /\ userID \in DOMAIN Connections
    /\ IF ~InSession(userID) THEN Commit(NoRequest, Throw(World))
       ELSE LET s == Connections[userID].sessionID
            IN IF Sessions[s].owner # userID THEN Commit(NoRequest, World)
               ELSE Commit(NoRequest, replaceDisconnectedPlayers(World, s, pol))

BurnInputs ==
    {NoBurnList} \cup {BurnList(c) : c \in UNION {[1..n -> CardIDs] : n \in 0..1}}

\* the session ids participants ask for in the first specification
HomeSessions == {"s1"}
\* packs of a single card
SinglePacks == {[ok |-> TRUE, pack |-> <<1>>]}

(* One draft room: every participant asks for the same session; the owner    *)
(* sends every option event, before and during the draft.                    *)
Next ==
    \/ \E u \in UserIDs, s \in HomeSessions : Connect(u, s)
    \/ \E u \in UserIDs : Disconnect(u)
    \/ \E u \in UserIDs, s \in HomeSessions : SetSession(u, s)
    \/ \E u \in UserIDs, gen \in GenOutcomes : StartDraft(u, gen, "first")
    \/ \E u \in UserIDs, c \in CardIDs, b \in BurnInputs : PickCard(u, c, b, "first")
    \/ \E u \in UserIDs, n \in 0..MaxBots : SetBots(u, n)
    \/ \E u \in UserIDs, n \in BoosterCounts : SetBoostersPerPlayer(u, n)
    \/ \E u \in UserIDs, n \in BurnCounts : SetBurnedCardsPerRound(u, n)
    \/ \E u \in UserIDs : ReplaceDisconnectedPlayers(u, "first")

Spec == Init /\ [][Next]_vars

(* The registry: participants move between two sessions, are removed by the  *)
(* owner, disconnect and come back; drafts run without bots and burns.       *)
NextRegistry ==
    \/ \E u \in UserIDs, s \in SessionIDs : Connect(u, s)
    \/ \E u \in UserIDs : Disconnect(u)
    \/ \E u \in UserIDs, s \in SessionIDs : SetSession(u, s)
    \/ \E u \in UserIDs, gen \in SinglePacks : StartDraft(u, gen, "first")
    \/ \E u \in UserIDs, c \in CardIDs : PickCard(u, c, NoBurnList, "first")
    \/ \E u \in UserIDs, n \in BoosterCounts : SetBoostersPerPlayer(u, n)
    \/ \E o \in UserIDs, u \in UserIDs : RemovePlayer(o, u, "first")
    \/ \E u \in UserIDs : ReplaceDisconnectedPlayers(u, "first")

SpecRegistry == Init /\ [][NextRegistry]_vars

(* Joining: participants move between two sessions while their owners start *)
(* drafts with or without a bot; nobody picks.                               *)
NextJoin ==
    \/ \E u \in UserIDs, s \in SessionIDs : Connect(u, s)
    \/ \E u \in UserIDs : Disconnect(u)
    \/ \E u \in UserIDs, s \in SessionIDs : SetSession(u, s)
    \/ \E u \in UserIDs, gen \in SinglePacks : StartDraft(u, gen, "first")
    \/ \E u \in UserIDs, n \in 0..MaxBots : SetBots(u, n)
    \/ \E u \in UserIDs, n \in BoosterCounts : SetBoostersPerPlayer(u, n)

SpecJoin == Init /\ [][NextJoin]_vars

(* A draft without burns and without departures: the bots follow either      *)
(* policy and the owner may ask for two packs per player.                    *)
NextDraft ==
    \/ \E u \in UserIDs, s \in HomeSessions : Connect(u, s)
    \/ \E u \in UserIDs, gen \in GenOutcomes, pol \in BotPolicies : StartDraft(u, gen, pol)
    \/ \E u \in UserIDs, c \in CardIDs, pol \in BotPolicies :
          PickCard(u, c, NoBurnList, pol)
    \/ \E u \in UserIDs, n \in 0..MaxBots : SetBots(u, n)
    \/ \E u \in UserIDs, n \in BoosterCounts \cup {2} : SetBoostersPerPlayer(u, n)

SpecDraft == Init /\ [][NextDraft]_vars

-----------------------------------------------------------------------------
(* Ownership *)

\* only the owner itself is refused
refusesOwnerOnly(sess, newOwnerID) == newOwnerID = sess.owner

\* a candidate setSessionOwner refuses: the owner itself, or one outside users
refusesOwner(sess, newOwnerID) ==
    newOwnerID = sess.owner \/ ~Includes(sess.users, newOwnerID)

\* socket.on('setSessionOwner')
SetSessionOwner(userID, newOwnerID) ==
    /\ ~crashed
    /\ userID \in DOMAIN Connections
    /\ IF ~InSession(userID) THEN Commit(NoRequest, Throw(World))
       ELSE LET s == Connections[userID].sessionID
                sess == Sessions[s]
            IN IF sess.owner # userID \/ refusesOwner(sess, newOwnerID)
               THEN Commit(NoRequest, World)
               ELSE Commit(NoRequest,
                           forUsersEmit([World EXCEPT !.S[s].owner = newOwnerID],
                                        s, "sessionOwner", newOwnerID))

-----------------------------------------------------------------------------
(* Options without a comparison, and sealed pools *)

\* for (let user of users) if (user != this.userID) Connections[user].socket.emit
emitToOthers(w, s, userID, ev, arg) ==
    EmitSeq(w, SetDelete(w.S[s].users, userID), ev, arg)

\* socket.on('setPickTimer')
SetPickTimer(userID, timerValue) ==
    /\ ~crashed
    /\ userID \in DOMAIN Connections
    /\ IF ~InSession(userID) THEN Commit(NoRequest, Throw(World))
       ELSE LET s == Connections[userID].sessionID
            IN IF Sessions[s].owner # userID \/ timerValue < 0 THEN Commit(NoRequest, World)
               ELSE Commit(NoRequest,
                           emitToOthers([World EXCEPT !.S[s].maxTimer = timerValue],
                                        s, userID, "setPickTimer", timerValue))

\* socket.on('setMaxPlayers')
SetMaxPlayers(userID, maxPlayers) ==
    /\ ~crashed
    /\ userID \in DOMAIN Connections
    /\ IF ~InSession(userID) THEN Commit(NoRequest, Throw(World))
       ELSE LET s == Connections[userID].sessionID
            IN IF Sessions[s].owner # userID \/ maxPlayers < 0 THEN Commit(NoRequest, World)
               ELSE Commit(NoRequest,
                           emitToOthers([World EXCEPT !.S[s].maxPlayers = maxPlayers],
                                        s, userID, "setMaxPlayers", maxPlayers))

\* every participant may send distributeSealed
sealedByAnyone(sess, userID) == FALSE

\* if (Sessions[sessionID].owner != this.userID) return
sealedRefused(sess, userID) == sess.owner # userID

RECURSIVE SealedLoop(_, _, _, _, _)
\* the loop of distributeSealed over the users: boosters are generated for
\* each of them (gens holds the outcome of every call) and sent; the first
\* failed generation ends the handler
SealedLoop(w, s, us, boostersPerPlayer, gens) ==
    IF w.thrown THEN w
    ELSE IF us = <<>> THEN [w EXCEPT !.S[s].boosters = <<>>]
    ELSE IF ~Head(gens).ok \/ boostersPerPlayer > PoolBoosters
    THEN generateBoosters(w, s, boostersPerPlayer, Head(gens))
    ELSE SealedLoop(Emit(generateBoosters(w, s, boostersPerPlayer, Head(gens)),
                         Head(us), "setCardSelection", boostersPerPlayer),
                    s, Tail(us), boostersPerPlayer, Tail(gens))

\* socket.on('distributeSealed')
DistributeSealed(userID, boostersPerPlayer, gens) ==
    /\ ~crashed
    /\ userID \in DOMAIN Connections
    /\ IF ~InSession(userID) THEN Commit(NoRequest, Throw(World))
       ELSE LET s == Connections[userID].sessionID
            IN IF sealedRefused(Sessions[s], userID) THEN Commit(NoRequest, World)
               ELSE Commit(NoRequest,
                           SealedLoop(emitMessage(World, s), s, Sessions[s].users,
                                      boostersPerPlayer, gens))

\* the outcomes of the generateBoosters calls of one distributeSealed
SealedOutcomes ==
    [1..Cardinality(UserIDs) -> SinglePacks \cup {[ok |-> FALSE, pack |-> <<>>]}]

\* the values of the owner's setPickTimer and setMaxPlayers events
TimerValues == {0, 75}
MaxPlayersValues == {1, 8}
SealedCounts == {1, 2}

\* generateBoosters has failed
GenerationFailed == [ok |-> FALSE, pack |-> <<>>]

\* the startWinstonDraft event: the owner of a session that is not drafting
\* starts a Winston draft of boosterCount boosters
StartWinstonDraft(userID, boosterCount, gen, cardPool) ==
    /\ ~crashed
    /\ userID \in DOMAIN Connections
    /\ cardPool \in Shuffles(Flatten([i \in 1..boosterCount |-> gen.pack]))
    /\ IF ~InSession(userID) THEN Commit(NoRequest, Throw(World))
       ELSE LET s == Connections[userID].sessionID
            IN IF Sessions[s].owner # userID \/ Sessions[s].drafting
               THEN Commit(NoRequest, World)
               ELSE Commit(NoRequest,
                           startWinstonDraft(World, s, boosterCount, gen, cardPool))

\* the numbers of boosters asked of a Winston draft
WinstonCounts == {2, 3}

\* the winstonDraftTakePile and winstonDraftSkipPile events: the player whose
\* turn it is takes or skips the current pile
WinstonDraftPile(userID, take) ==
    /\ ~crashed
    /\ userID \in DOMAIN Connections
    /\ IF ~InSession(userID) THEN Commit(NoRequest, Throw(World))
       ELSE LET s == Connections[userID].sessionID
            IN IF \/ ~Sessions[s].drafting
                  \/ ~Sessions[s].winstonDraftState.active
                  \/ ~Sessions[s].winstonDraftState.hasPiles
                  \/ currentPlayer(Sessions[s].winstonDraftState) # userID
               THEN Commit(NoRequest, World)
               ELSE IF take THEN Commit(NoRequest, winstonTakePile(World, s))
               ELSE Commit(NoRequest, winstonSkipPile(World, s))

\* the boosters of a Winston draft: two cards each
WinstonPacks == {[ok |-> TRUE, pack |-> <<1, 2>>]}

(* Winston: in one room two participants play Winston drafts of two or three *)
(* boosters, taking and skipping piles; they leave and return.               *)
NextWinston ==
    \/ \E u \in UserIDs, s \in HomeSessions : Connect(u, s)
    \/ \E u \in UserIDs : Disconnect(u)
    \/ \E u \in UserIDs, n \in WinstonCounts, gen \in WinstonPacks :
          \E cardPool \in Shuffles(Flatten([i \in 1..n |-> gen.pack])) :
              StartWinstonDraft(u, n, gen, cardPool)
    \/ \E u \in UserIDs, take \in BOOLEAN : WinstonDraftPile(u, take)

SpecWinston == Init /\ [][NextWinston]_vars

(* Starts: in one room the owner starts traditional and Winston drafts whose *)
(* boosters can or cannot be generated; participants pick, leave and return. *)
NextStarts ==
    \/ \E u \in UserIDs, s \in HomeSessions : Connect(u, s)
    \/ \E u \in UserIDs : Disconnect(u)
    \/ \E u \in UserIDs, gen \in SinglePacks \cup {GenerationFailed} :
          StartDraft(u, gen, "first")
    \/ \E u \in UserIDs, n \in WinstonCounts, gen \in SinglePacks \cup {GenerationFailed} :
          \E cardPool \in Shuffles(Flatten([i \in 1..n |-> gen.pack])) :
              StartWinstonDraft(u, n, gen, cardPool)
    \/ \E u \in UserIDs, c \in CardIDs : PickCard(u, c, NoBurnList, "first")
    \/ \E u \in UserIDs, n \in BoosterCounts \cup {2} : SetBoostersPerPlayer(u, n)

SpecStarts == Init /\ [][NextStarts]_vars

(* Owners: participants move between two sessions, hand the ownership over, *)
(* remove each other and leave, before and during drafts; nobody picks.     *)
NextOwners ==
    \/ \E u \in UserIDs, s \in SessionIDs : Connect(u, s)
    \/ \E u \in UserIDs : Disconnect(u)
    \/ \E u \in UserIDs, s \in SessionIDs : SetSession(u, s)
    \/ \E u \in UserIDs, n \in UserIDs : SetSessionOwner(u, n)
    \/ \E o \in UserIDs, u \in UserIDs : RemovePlayer(o, u, "first")
    \/ \E u \in UserIDs, gen \in SinglePacks : StartDraft(u, gen, "first")
    \/ \E u \in UserIDs, n \in BoosterCounts : SetBoostersPerPlayer(u, n)

SpecOwners == Init /\ [][NextOwners]_vars

(* The owner's events: in one room the participants send every owner-gated *)
(* event, whether they own the session or not.                              *)
NextOptions ==
    \/ \E u \in UserIDs, s \in HomeSessions : Connect(u, s)
    \/ \E u \in UserIDs : Disconnect(u)
    \/ \E u \in UserIDs, gen \in SinglePacks : StartDraft(u, gen, "first")
    \/ \E u \in UserIDs, n \in BoosterCounts : SetBoostersPerPlayer(u, n)
    \/ \E u \in UserIDs, n \in TimerValues : SetPickTimer(u, n)
    \/ \E u \in UserIDs, n \in MaxPlayersValues : SetMaxPlayers(u, n)
    \/ \E u \in UserIDs, n \in SealedCounts, gens \in SealedOutcomes :
          DistributeSealed(u, n, gens)
    \/ \E u \in UserIDs, n \in UserIDs : SetSessionOwner(u, n)
    \/ \E o \in UserIDs, u \in UserIDs : RemovePlayer(o, u, "first")
    \/ \E u \in UserIDs : ReplaceDisconnectedPlayers(u, "first")

SpecOptions == Init /\ [][NextOptions]_vars

-----------------------------------------------------------------------------
(* Picks *)

\* what a pick may change: the boosters, the round, the counters and the log
\* of every session, and the picks of every participant
DraftState(S, C) ==
    [sessions |-> [s \in DOMAIN S |->
                     <<S[s].boosters, S[s].round, S[s].pickedCardsThisRound,
                       S[s].draftLog>>],
     picks |-> [u \in DOMAIN C |-> <<C[u].pickedCards, C[u].pickedThisRound>>]]

C3_BurnsEnforced ==
    [][\A s \in DOMAIN Sessions \cap DOMAIN Sessions', u \in DOMAIN Connections :
         LET sess == Sessions[s]
             after == Sessions'[s]
             k == sess.burnedCardsPerRound
             i == Connections[u].boosterIndex + 1
         IN (/\ reply' = "0"
             /\ sess.drafting /\ after.drafting /\ after.round = sess.round
             /\ Includes(sess.users, u)
             /\ u \in DOMAIN sess.draftLog.users \cap DOMAIN after.draftLog.users
             /\ Len(after.draftLog.users[u]) > Len(sess.draftLog.users[u])
             /\ k > 0
             /\ Len(sess.boosters[i]) >= 1 + k)
            => Len(after.boosters[i]) = Len(sess.boosters[i]) - 1 - k]_vars

-----------------------------------------------------------------------------
(* Rounds *)

HumanSeats(sess) == Range(sess.users) \cup DOMAIN sess.disconnectedUsers

\* pickedThisRound of a human seat, connected or not
SeatPicked(sess, h) ==
    IF h \in DOMAIN sess.disconnectedUsers THEN sess.disconnectedUsers[h].pickedThisRound
    ELSE h \in DOMAIN Connections /\ Connections[h].pickedThisRound

\* the picks a human seat made in the rounds before the current one
PicksBefore(sess, h) ==
    Len(sess.draftLog.users[h]) - (IF SeatPicked(sess, h) THEN 1 ELSE 0)

-----------------------------------------------------------------------------
(* A whole draft *)

\* participant u of session sess can send a pick that is accepted
CanPick(sess, u) ==
    /\ u \in DOMAIN Connections
    /\ ~Connections[u].pickedThisRound
    /\ Connections[u].boosterIndex >= 0
    /\ Connections[u].boosterIndex < Len(sess.boosters)
    /\ sess.boosters[Connections[u].boosterIndex + 1] # <<>>

\* C5: a draft in which nobody disconnects and every human sends valid picks
\* terminates: until endDraft, some participant is always able to send a pick
\* that is accepted
C5_DraftProceeds ==
    \A s \in DOMAIN Sessions :
        Sessions[s].drafting => \E u \in Range(Sessions[s].users) : CanPick(Sessions[s], u)

\* the participants that took part in the last draft of sess
Drafters(sess) == Range(sess.users) \cap DOMAIN sess.draftLog.users \cap DOMAIN Connections

\* endDraft has just been sent to the participants of sess
DraftJustEnded(sess) ==
    /\ ~sess.drafting
    /\ \E i \in 1..Len(emitted) :
          emitted[i][2] = "endDraft" /\ Includes(sess.users, emitted[i][1])

\* C6: without burns, when the last round of the k-th pack completes every
\* virtual player holds PackSize * k cards (a bot has by then picked from the
\* next pack), and at the end of the draft packs * PackSize cards
C6_CardsPerPack ==
    \A s \in DOMAIN Sessions :
        LET sess == Sessions[s]
            held == (sess.boosterNumber - 1) * PackSize
        IN /\ (sess.drafting /\ sess.round = 1 /\ sess.pickedCardsThisRound = 0) =>
                /\ \A u \in Drafters(sess) : Len(Connections[u].pickedCards) = held
                /\ \A i \in 1..Len(sess.botsInstances) : Len(sess.botsInstances[i]) = held + 1
           /\ DraftJustEnded(sess) =>
                /\ \A u \in Drafters(sess) : Len(Connections[u].pickedCards) = held
                /\ \A i \in 1..Len(sess.botsInstances) : Len(sess.botsInstances[i]) = held

\* the booster a human seat holds in the round, Undef when it has none
SeatBooster(sess, h) ==
    IF h \in DOMAIN sess.disconnectedUsers THEN sess.disconnectedUsers[h].boosterIndex
    ELSE IF h \in DOMAIN Connections THEN Connections[h].boosterIndex
    ELSE Undef

\* C7: during a draft the number of boosters is a multiple of the number of
\* virtual players (users + disconnected users + bots), and within a round no
\* two seats hold the same booster
C7_BoostersPerVirtualPlayer ==
    \A s \in DOMAIN Sessions :
        LET sess == Sessions[s]
        IN sess.drafting =>
             /\ getVirtualPlayersCount(sess) > 0
             /\ Len(sess.boosters) % getVirtualPlayersCount(sess) = 0
             /\ \A h1, h2 \in HumanSeats(sess) :
                   (h1 # h2 /\ SeatBooster(sess, h1) # Undef)
                      => SeatBooster(sess, h1) # SeatBooster(sess, h2)

-----------------------------------------------------------------------------
(* Membership *)

Members(sess) == Range(sess.users)
Known(sess) == Members(sess) \cup DOMAIN sess.disconnectedUsers

\* participant u has been sent setSession with an id other than s
SentElsewhere(events, u, s) ==
    \E i \in 1..Len(events) :
        events[i][1] = u /\ events[i][2] = "setSession" /\ events[i][3] # s

\* C8: a participant that is not in disconnectedUsers never becomes a member of
\* a drafting session: the join leaves users unchanged and the participant is
\* sent setSession with an id different from the drafting session's
C8_NoJoinWhileDrafting ==
    [][\A s \in DOMAIN Sessions, u \in UserIDs :
         (Sessions[s].drafting /\ u \notin Known(Sessions[s])) =>
            /\ s \in DOMAIN Sessions' => u \notin Members(Sessions'[s])
            /\ request' = JoinRequest(u, s) =>
                  /\ s \in DOMAIN Sessions'
                  /\ Sessions'[s].users = Sessions[s].users
                  /\ SentElsewhere(emitted', u, s)]_vars

\* a participant unknown to a drafting session has asked to join it
C8_Witness ==
    \E s \in DOMAIN Sessions :
        /\ Sessions[s].drafting
        /\ request.session = s
        /\ request.user \in DOMAIN Connections
        /\ request.user \notin Known(Sessions[s])
        /\ SentElsewhere(emitted, request.user, s)

\* C9: while a session drafts, users and the keys of disconnectedUsers together
\* never change: who leaves users is in disconnectedUsers after the same step,
\* and who enters users was in disconnectedUsers before it
C9_SeatsFixedWhileDrafting ==
    [][\A s \in DOMAIN Sessions \cap DOMAIN Sessions' :
         (Sessions[s].drafting /\ Sessions'[s].drafting) =>
            /\ Known(Sessions'[s]) = Known(Sessions[s])
            /\ Members(Sessions[s]) \ Members(Sessions'[s])
                  \subseteq DOMAIN Sessions'[s].disconnectedUsers
            /\ Members(Sessions'[s]) \ Members(Sessions[s])
                  \subseteq DOMAIN Sessions[s].disconnectedUsers]_vars

\* a participant has come back to the draft it had left, while it still runs
C9_Witness ==
    \E s \in DOMAIN Sessions :
        /\ Sessions[s].drafting
        /\ Len(Sessions[s].users) >= 2
        /\ \E i \in 1..Len(emitted) :
              emitted[i][2] = "rejoinDraft" /\ emitted[i][1] \in Members(Sessions[s])

\* C10: no participant is both in users and in disconnectedUsers of a session
C10_UsersNotDisconnected ==
    \A s \in DOMAIN Sessions :
        Members(Sessions[s]) \cap DOMAIN Sessions[s].disconnectedUsers = {}

-----------------------------------------------------------------------------
(* Ownership and the registry *)

\* C11: the owner of every live session is one of its users
C11_OwnerIsMember ==
    \A s \in DOMAIN Sessions : Includes(Sessions[s].users, Sessions[s].owner)

\* the participant who created a session has left it and another member owns it
C11_Witness ==
    \E s \in DOMAIN Sessions :
        /\ Len(Sessions[s].userOrder) >= 2
        /\ ~Includes(Sessions[s].users, Sessions[s].userOrder[1])
        /\ Sessions[s].owner # Sessions[s].userOrder[1]
        /\ Includes(Sessions[s].users, Sessions[s].owner)

\* C12: a session in the registry has members, and every member of it is a
\* connected participant whose session it is
C12_MembersConnected ==
    \A s \in DOMAIN Sessions :
        /\ Sessions[s].users # <<>>
        /\ \A u \in Members(Sessions[s]) :
              u \in DOMAIN Connections /\ Connections[u].sessionID = s

-----------------------------------------------------------------------------
(* The owner's events *)

\* participant u is in a session that somebody else owns
NotOwner(u) ==
    /\ u \in DOMAIN Connections
    /\ InSession(u)
    /\ Sessions[Connections[u].sessionID].owner # u

\* u sends one of the owner-gated events
OwnerGated(u) ==
    \/ \E gen \in SinglePacks : StartDraft(u, gen, "first")
    \/ \E n \in BoosterCounts : SetBoostersPerPlayer(u, n)
    \/ \E n \in TimerValues : SetPickTimer(u, n)
    \/ \E n \in MaxPlayersValues : SetMaxPlayers(u, n)
    \/ \E n \in SealedCounts, gens \in SealedOutcomes : DistributeSealed(u, n, gens)
    \/ \E n \in UserIDs : SetSessionOwner(u, n)
    \/ \E v \in UserIDs : RemovePlayer(u, v, "first")
    \/ ReplaceDisconnectedPlayers(u, "first")

\* C13: an owner-gated event sent by a participant who does not own the
\* session changes no option, no membership and no draft state, and no event
\* goes out to anybody
C13_OwnerGated ==
    [][\A u \in UserIDs :
          (NotOwner(u) /\ OwnerGated(u)) =>
              /\ Sessions' = Sessions
              /\ Connections' = Connections
              /\ emitted' = <<>>]_vars

\* a draft in a session whose owner has changed an option; the last event
\* left everything as it was: the other participant's events are such events
C13_Witness ==
    /\ emitted = <<>>
    /\ request = NoRequest
    /\ \E u \in UserIDs :
          /\ NotOwner(u)
          /\ Sessions[Connections[u].sessionID].drafting
          /\ Sessions[Connections[u].sessionID].maxTimer = 0

\* u sends an option event whose value is the one the session already has
SameValue(u) ==
    /\ u \in DOMAIN Connections
    /\ InSession(u)
    /\ LET sess == Sessions[Connections[u].sessionID]
       IN \/ SetBoostersPerPlayer(u, sess.boostersPerPlayer)
          \/ SetPickTimer(u, sess.maxTimer)
          \/ SetMaxPlayers(u, sess.maxPlayers)

\* C14: an option event that carries the current value of the option changes
\* nothing and sends no event to any participant
C14_SameValueDoesNothing ==
    [][\A u \in UserIDs :
          SameValue(u) =>
              /\ Sessions' = Sessions
              /\ Connections' = Connections
              /\ emitted' = <<>>]_vars

-----------------------------------------------------------------------------
(* Handshakes *)

\* participant n has just been registered under a minted id
Minted(events, n) ==
    \E i \in 1..Len(events) : events[i] = <<n, "alreadyConnected", n>>

\* C15: a handshake with the id of a connected participant registers one more
\* participant, under an id nobody had, and leaves every connected participant
\* as it was: its connection, its place in the sessions and the drafts
C15_DuplicateHandshake ==
    [][\A n \in UserIDs :
          Minted(emitted', n) =>
              /\ n \notin DOMAIN Connections
              /\ DOMAIN Connections' = DOMAIN Connections \cup {n}
              /\ \A u \in DOMAIN Connections : Connections'[u] = Connections[u]
              /\ \A s \in DOMAIN Sessions :
                    /\ s \in DOMAIN Sessions'
                    /\ Members(Sessions'[s]) \ {n} = Members(Sessions[s])
                    /\ Sessions'[s].disconnectedUsers = Sessions[s].disconnectedUsers
                    /\ Sessions'[s].drafting = Sessions[s].drafting
                    /\ DraftState(Sessions', Connections').sessions[s]
                          = DraftState(Sessions, Connections).sessions[s]]_vars

\* the second handshake with an id: both participants sit in the same session
C15_Witness ==
    \E n \in UserIDs :
        /\ Minted(emitted, n)
        /\ \E s \in DOMAIN Sessions : Len(Sessions[s].users) = 2 /\ Includes(Sessions[s].users, n)

-----------------------------------------------------------------------------
(* Disconnected participants *)

\* C16: a participant who has rejoined a draft is a user again, is no longer
\* among the disconnected, and holds a booster of the draft: rejoinDraft
\* carries the booster of the seat
C16_RejoinRestores ==
    \A i \in 1..Len(emitted) :
        emitted[i][2] = "rejoinDraft" =>
            LET u == emitted[i][1]
                s == Connections[u].sessionID
            IN /\ Includes(Sessions[s].users, u)
               /\ u \notin DOMAIN Sessions[s].disconnectedUsers
               /\ emitted[i][3] = Connections[u].boosterIndex
               /\ Connections[u].boosterIndex \in 0..(Len(Sessions[s].boosters) - 1)

\* participant u is away from the draft of session s and no bot plays for it
Away(S, s, u) ==
    /\ s \in DOMAIN S
    /\ S[s].drafting
    /\ u \in DOMAIN S[s].disconnectedUsers
    /\ ~S[s].disconnectedUsers[u].hasBot

\* C17: while a participant is away from a draft and the owner has not asked
\* for the replacement, no round starts: the round and the booster number stay,
\* no nextBooster goes out, no bot plays for the participant, the timer is off
C17_DisconnectFreezes ==
    [][\A s \in SessionIDs, u \in UserIDs :
          (/\ Away(Sessions, s, u)
           /\ s \in DOMAIN Sessions'
           /\ u \in DOMAIN Sessions'[s].disconnectedUsers
           /\ ~\E o \in UserIDs : ReplaceDisconnectedPlayers(o, "first"))
          => /\ Away(Sessions', s, u)
             /\ Sessions'[s].round = Sessions[s].round
             /\ Sessions'[s].boosterNumber = Sessions[s].boosterNumber
             /\ ~Sessions'[s].ticking
             /\ \A i \in 1..Len(emitted') : emitted'[i][2] # "nextBooster"]_vars

-----------------------------------------------------------------------------
(* Starting a draft *)

\* the owner u starts a draft, traditional or Winston, whose boosters cannot
\* be generated
FailedStart(u) ==
    /\ u \in DOMAIN Connections
    /\ InSession(u)
    /\ LET sess == Sessions[Connections[u].sessionID]
       IN /\ sess.owner = u
          /\ ~sess.drafting
          /\ \/ /\ Len(sess.users) + sess.bots >= 2
                /\ \E gen \in SinglePacks \cup {GenerationFailed} :
                      /\ \/ ~gen.ok
                         \/ (Len(sess.users) + sess.bots) * sess.boostersPerPlayer
                               > PoolBoosters
                      /\ StartDraft(u, gen, "first")
             \/ /\ Len(sess.users) = 2
                /\ \E n \in WinstonCounts : StartWinstonDraft(u, n, GenerationFailed, <<>>)

\* event ev is among the events
Sent(events, ev) == \E i \in 1..Len(events) : events[i][2] = ev

\* C19: when the boosters of a draft cannot be generated, every participant
\* is sent the error message, no startDraft, startWinstonDraft or nextBooster
\* goes out, and the session is not drafting: its owner may start again
C19_FailedStartRetryable ==
    [][\A u \in UserIDs :
          FailedStart(u) =>
              LET s == Connections[u].sessionID
              IN /\ s \in DOMAIN Sessions'
                 /\ ~Sessions'[s].drafting
                 /\ ~Sessions'[s].winstonDraftState.active
                 /\ Sessions'[s].owner = u
                 /\ Sessions'[s].users = Sessions[s].users
                 /\ \A v \in Members(Sessions[s]) :
                       \E i \in 1..Len(emitted') :
                           emitted'[i] = <<v, "Error generating boosters", 0>>
                 /\ ~Sent(emitted', "startDraft")
                 /\ ~Sent(emitted', "startWinstonDraft")
                 /\ ~Sent(emitted', "nextBooster")]_vars

\* the two participants of a session have been told that the boosters could
\* not be generated
C19_Witness ==
    \E s \in DOMAIN Sessions :
        /\ Len(Sessions[s].users) = 2
        /\ ~Sessions[s].drafting
        /\ \A v \in Members(Sessions[s]) :
              \E i \in 1..Len(emitted) : emitted[i] = <<v, "Error generating boosters", 0>>

-----------------------------------------------------------------------------
(* Sealed pools *)

\* the number of setCardSelection events holding n boosters sent to v
Selections(events, v, n) ==
    Cardinality({i \in 1..Len(events) : events[i] = <<v, "setCardSelection", n>>})

\* C20: when the owner distributes sealed pools of n boosters, every
\* participant receives exactly one setCardSelection holding n boosters and
\* the boosters of the session are empty afterwards
C20_SealedReachesEveryone ==
    [][\A u \in UserIDs, n \in SealedCounts, gens \in SealedOutcomes :
          (/\ u \in DOMAIN Connections
           /\ InSession(u)
           /\ Sessions[Connections[u].sessionID].owner = u
           /\ DistributeSealed(u, n, gens))
          => LET s == Connections[u].sessionID
             IN /\ Sessions'[s].boosters = <<>>
                /\ \A v \in Members(Sessions[s]) : Selections(emitted', v, n) = 1]_vars

-----------------------------------------------------------------------------
(* Winston draft *)

\* the number of copies of card c in a list of cards
Copies(cards, c) == Cardinality({i \in 1..Len(cards) : cards[i] = c})

\* a Winston draft is running in session s with its two players connected
WinstonRunning(s) ==
    /\ Sessions[s].drafting
    /\ Sessions[s].winstonDraftState.active
    /\ Sessions[s].winstonDraftState.hasPiles
    /\ Len(Sessions[s].winstonDraftState.players) = 2
    /\ \A u \in Range(Sessions[s].winstonDraftState.players) :
          /\ u \in DOMAIN Connections
          /\ Connections[u].sessionID = s
          /\ Includes(Sessions[s].users, u)

\* the cards of the pool, of the three piles and of the two players' picks
WinstonCards(s) ==
    LET st == Sessions[s].winstonDraftState
    IN st.cardPool \o st.piles[1] \o st.piles[2] \o st.piles[3]
          \o Connections[st.players[1]].pickedCards
          \o Connections[st.players[2]].pickedCards

\* C21: while a Winston draft runs, the cards of the pool, of the piles and of
\* the two players' picks are together exactly the generated cards
C21_WinstonConserves ==
    \A s \in DOMAIN Sessions :
        WinstonRunning(s) =>
            \A c \in CardIDs :
                Copies(WinstonCards(s), c) = Copies(Flatten(Sessions[s].boosters), c)

-----------------------------------------------------------------------------
(* Generation of the boosters *)

\* the collections generateBoosters is called on: few or many white commons,
\* rares and mythics or rares only, uncommons to spare or just enough
Collections ==
    {[k \in Kinds |->
        CASE k = "mythic" -> my [] k = "rare" -> ra [] k = "uncommon" -> un
          [] k = "W" -> wh [] k = "M" -> 12 - wh [] OTHER -> 2] :
        my \in {0, 1}, ra \in {1, 2}, un \in {6, 7}, wh \in {1, 3}}

\* the numbers of boosters asked of generateBoosters
BoosterQuantities == {1, 2}

\* the calls of generateBoosters that are followed
InitBoosters ==
    /\ Connections = EmptyMap
    /\ Sessions = EmptyMap
    /\ request = NoRequest
    /\ emitted = <<>>
    /\ reply = NoReply
    /\ crashed = FALSE
    /\ generation \in
          {[phase |-> "called", coll |-> coll, maxRarity |-> maxRarity, foil |-> foil,
            colorBalance |-> colorBalance, boosterQuantity |-> boosterQuantity,
            boosters |-> <<>>] :
              coll \in Collections, maxRarity \in {"mythic", "rare", "uncommon", "common"},
              foil \in BOOLEAN, colorBalance \in BOOLEAN,
              boosterQuantity \in BoosterQuantities}

NextBoosters == CallGenerateBoosters \/ GenerateBooster

SpecBoosters == InitBoosters /\ [][NextBoosters]_vars

-----------------------------------------------------------------------------
(* Ranges of the options *)

\* the integers a client sends in boostersPerPlayer, bots and setMaxPlayers
OptionValues == {0 - 1, 0, 1, 3}

(* Ranges: the participants of one room send any integer in the option      *)
(* events; the ownership moves and participants leave and return.            *)
NextRanges ==
    \/ \E u \in UserIDs, s \in HomeSessions : Connect(u, s)
    \/ \E u \in UserIDs : Disconnect(u)
    \/ \E u \in UserIDs, n \in OptionValues : SetBoostersPerPlayer(u, n)
    \/ \E u \in UserIDs, n \in OptionValues : SetBots(u, n)
    \/ \E u \in UserIDs, n \in OptionValues : SetMaxPlayers(u, n)
    \/ \E u, o \in UserIDs : SetSessionOwner(u, o)

SpecRanges == Init /\ [][NextRanges]_vars

\* C23: in every session boostersPerPlayer is at least 1 and bots and
\* maxPlayers are at least 0, whatever the option events sent
C23_OptionRanges ==
    \A s \in DOMAIN Sessions :
        /\ Sessions[s].boostersPerPlayer >= 1
        /\ Sessions[s].bots >= 0
        /\ Sessions[s].maxPlayers >= 0

-----------------------------------------------------------------------------
(* Order of the events of a draft *)

\* the positions of the events of name ev sent to v
Positions(events, v, ev) ==
    {i \in 1..Len(events) : events[i][1] = v /\ events[i][2] = ev}

\* v is a connected participant of a traditional draft in progress
InDraft(C, S, v) ==
    /\ v \in DOMAIN C
    /\ \E s \in DOMAIN S :
          /\ S[s].drafting
          /\ ~S[s].winstonDraftState.active
          /\ Includes(S[s].users, v)

\* v is a participant of a draft in progress who has left and may return
Away22(S, v) == \E s \in DOMAIN S : S[s].drafting /\ v \in DOMAIN S[s].disconnectedUsers

\* an accepted pick of v is announced to every participant of v's session
PickAnnounced(v) ==
    (/\ reply' = "0"
     /\ v \in DOMAIN Connections
     /\ v \in DOMAIN Connections'
     /\ Len(Connections'[v].pickedCards) = Len(Connections[v].pickedCards) + 1)
        => \A u \in Members(Sessions[Connections[v].sessionID]) :
              \E k \in Positions(emitted', u, "updateUser") : emitted'[k][3] = v

-----------------------------------------------------------------------------
(* Generated boosters *)

\* the commons of a booster
Commons(booster) ==
    booster["W"] + booster["U"] + booster["B"] + booster["R"] + booster["G"] + booster["M"]

\* the cards of a booster
BoosterCards(booster) ==
    booster["mythic"] + booster["rare"] + booster["uncommon"] + Commons(booster)

\* the boosters a followed call of generateBoosters has pushed so far
Generated == IF generation.phase = "none" THEN <<>> ELSE generation.boosters

\* C24: with colorBalance every generated booster holds at least 14 cards and
\* at least one common of each of the five colors
C24_ColorBalanced ==
    (generation.phase # "none" /\ generation.colorBalance) =>
        \A i \in 1..Len(Generated) :
            /\ BoosterCards(Generated[i]) >= 14
            /\ \A c \in Range(Colors) : Generated[i][c] >= 1

\* C25: every generated booster holds the numbers of rares or mythics, of
\* uncommons and of commons of the targets of maxRarity (a foil in the place
\* of a card of its own rarity leaves these numbers as they are)
C25_RarityTargets ==
    generation.phase # "none" =>
        \A i \in 1..Len(Generated) :
            /\ Generated[i]["mythic"] + Generated[i]["rare"]
                  = Targets(generation.maxRarity).rare
            /\ Generated[i]["uncommon"] = Targets(generation.maxRarity).uncommon
            /\ Commons(Generated[i]) = Targets(generation.maxRarity).common

-----------------------------------------------------------------------------
(* Removal of a player *)

\* the sessions v is a member of
SessionsOf(S, v) == {t \in DOMAIN S : Includes(S[t].users, v)}

\* the owner o of a session removes its member u
Removes(o, u) ==
    /\ o \in DOMAIN Connections
    /\ InSession(o)
    /\ u # o
    /\ Sessions[Connections[o].sessionID].owner = o
    /\ Includes(Sessions[Connections[o].sessionID].users, u)
    /\ RemovePlayer(o, u, "first")

\* C26: a member removed by the owner leaves the users of the session and is
\* the only member and the owner of a new session, whose id setSession tells
\* them; the other participants stay members of the sessions they were in
C26_RemovedToNewSession ==
    [][\A o, u \in UserIDs :
          Removes(o, u) =>
              LET s == Connections[o].sessionID
              IN /\ s \in DOMAIN Sessions' => ~Includes(Sessions'[s].users, u)
                 /\ \E n \in DOMAIN Sessions' \ DOMAIN Sessions :
                       /\ Sessions'[n].users = <<u>>
                       /\ Sessions'[n].owner = u
                       /\ SessionsOf(Sessions', u) = {n}
                       /\ u \in DOMAIN Connections'
                       /\ Connections'[u].sessionID = n
                       /\ \E i \in Positions(emitted', u, "setSession") :
                             emitted'[i][3] = n
                 /\ \A v \in UserIDs \ {u} :
                       SessionsOf(Sessions', v) = SessionsOf(Sessions, v)]_vars

-----------------------------------------------------------------------------
(* The session of a participant *)

\* session s refuses newcomers: it is drafting or full
Closed(S, s) ==
    /\ s \in DOMAIN S
    /\ \/ S[s].drafting
       \/ getHumanPlayerCount(S[s]) >= S[s].maxPlayers

\* C27: after a handshake and after a setSession request of participant u for
\* session s, u is a member of exactly one session, which its sessionID
\* names: s, or, when s is drafting or full, the session u was in before or
\* a new one
C27_InOneSession ==
    [][\A u \in UserIDs, s \in SessionIDs :
          (request' = JoinRequest(u, s) /\ ~crashed') =>
              /\ u \in DOMAIN Connections'
              /\ SessionsOf(Sessions', u) = {Connections'[u].sessionID}
              /\ \/ Connections'[u].sessionID = s
                 \/ /\ Closed(Sessions, s)
                    /\ \/ /\ u \in DOMAIN Connections
                          /\ Connections'[u].sessionID = Connections[u].sessionID
                       \/ Connections'[u].sessionID \notin DOMAIN Sessions]_vars

-----------------------------------------------------------------------------
(* The cards a pick removes *)

(* Burns: in one room the owner sets the number of burned cards and starts  *)
(* drafts of boosters of two cards; the participants pick with and without  *)
(* a list of burned cards.                                                   *)
NextBurns ==
    \/ \E u \in UserIDs, s \in HomeSessions : Connect(u, s)
    \/ \E u \in UserIDs, gen \in GenOutcomes : StartDraft(u, gen, "first")
    \/ \E u \in UserIDs, c \in CardIDs, b \in BurnInputs : PickCard(u, c, b, "first")
    \/ \E u \in UserIDs, n \in BoosterCounts : SetBoostersPerPlayer(u, n)
    \/ \E u \in UserIDs, n \in BurnCounts : SetBurnedCardsPerRound(u, n)

SpecBurns == Init /\ [][NextBurns]_vars

\* the pick of card c with the burned cards b by participant v is accepted
\* and does not end the round
AcceptedPick(v, c, b) ==
    /\ v \in DOMAIN Connections
    /\ InSession(v)
    /\ PickCard(v, c, b, "first")
    /\ reply' = "0"
    /\ Sessions'[Connections[v].sessionID].drafting
    /\ Sessions'[Connections[v].sessionID].round = Sessions[Connections[v].sessionID].round
    /\ Sessions'[Connections[v].sessionID].boosterNumber
          = Sessions[Connections[v].sessionID].boosterNumber

-----------------------------------------------------------------------------
(* The direction of the passes *)

\* a collection that fills the boosters of three seats with two packs each
RotationPacks == {[ok |-> TRUE, pack |-> <<1, 2>>, pool |-> 6]}
RotationCounts == {1, 2}

(* Passes: in one room the owner chooses one bot or none and one or two      *)
(* packs per player, and starts drafts of boosters of two cards.            *)
NextRotation ==
    \/ \E u \in UserIDs, s \in HomeSessions : Connect(u, s)
    \/ \E u \in UserIDs, gen \in RotationPacks : StartDraft(u, gen, "first")
    \/ \E u \in UserIDs, c \in CardIDs : PickCard(u, c, NoBurnList, "first")
    \/ \E u \in UserIDs, n \in 0..MaxBots : SetBots(u, n)
    \/ \E u \in UserIDs, n \in RotationCounts : SetBoostersPerPlayer(u, n)

SpecRotation == Init /\ [][NextRotation]_vars

\* the seat position of participant v, counted from 0
SeatPosition(sess, v) ==
    LET seats == getSortedVirtualPlayers(sess)
    IN (CHOOSE i \in 1..Len(seats) : ~seats[i].isBot /\ seats[i].id = v) - 1

\* the packs of the session are whole: every bot has a seat and every pack
\* left has a booster for every seat
WholePacks(sess) ==
    /\ getVirtualPlayersCount(sess) > 0
    /\ Len(sess.botsInstances) = sess.bots
    /\ Len(sess.boosters) % getVirtualPlayersCount(sess) = 0
    /\ Len(sess.boosters) + (sess.boosterNumber - 1) * getVirtualPlayersCount(sess)
          = getVirtualPlayersCount(sess) * sess.boostersPerPlayer

\* C29: at the start of a pick round the participant at seat position p is
\* handed booster negMod(offset + p, V), where offset is the pick number for
\* the odd-numbered packs and minus the pick number for the even-numbered
\* ones, whatever boostersPerPlayer is
C29_PassDirection ==
    [][\A v \in UserIDs :
          (/\ ~crashed'
           /\ Positions(emitted', v, "nextBooster") # {}
           /\ InDraft(Connections', Sessions', v)
           /\ Connections'[v].sessionID \in DOMAIN Sessions'
           /\ Includes(Sessions'[Connections'[v].sessionID].users, v)
           /\ WholePacks(Sessions'[Connections'[v].sessionID])) =>
              LET sess == Sessions'[Connections'[v].sessionID]
                  pickNumber == sess.round - 1
                  offset == IF sess.boosterNumber % 2 = 1 THEN pickNumber
                            ELSE 0 - pickNumber
              IN Connections'[v].boosterIndex
                    = negMod(offset + SeatPosition(sess, v),
                             getVirtualPlayersCount(sess))]_vars

-----------------------------------------------------------------------------
(* The boosters of a pack *)

\* the accepted pick of participant v completes a round of session s
CompletesRound(v, s) ==
    /\ ~crashed'
    /\ reply' = "0"
    /\ v \in DOMAIN Connections
    /\ v \in DOMAIN Connections'
    /\ Connections[v].sessionID = s
    /\ s \in DOMAIN Sessions
    /\ s \in DOMAIN Sessions'
    /\ Sessions[s].drafting
    /\ ~Sessions[s].winstonDraftState.active
    /\ Len(Connections'[v].pickedCards) = Len(Connections[v].pickedCards) + 1
    /\ Sessions[s].pickedCardsThisRound + 1 = getHumanPlayerCount(Sessions[s])

\* the boosters of the current pack of sess: the first V ones
CurrentPack(sess) ==
    {i \in 1..Len(sess.boosters) : i <= getVirtualPlayersCount(sess)}

-----------------------------------------------------------------------------
(* Skipping a pile of a Winston draft *)

\* participant u, whose turn it is, skips pile 0 or pile 1 of session s
SkipsEarlyPile(u, s) ==
    /\ s \in DOMAIN Sessions
    /\ WinstonRunning(s)
    /\ currentPlayer(Sessions[s].winstonDraftState) = u
    /\ Sessions[s].winstonDraftState.currentPile < 2
    /\ WinstonDraftPile(u, FALSE)

\* no pile after the current one holds a card
NoLaterPile(st) ==
    \A j \in 0..2 : j > st.currentPile => st.piles[j + 1] = <<>>

\* C31: an accepted skip of pile 0 or 1 adds one card of a non-empty cardPool
\* to the skipped pile and nothing else to it, moves currentPile to the next
\* pile that holds a card, and leaves the round, the current player and the
\* picked cards alone; with an empty cardPool and no card in a later pile the
\* skip is rejected and changes nothing
C31_SkipEarlyPile ==
    [][\A u \in UserIDs, s \in SessionIDs :
          SkipsEarlyPile(u, s) =>
              LET st == Sessions[s].winstonDraftState
                  cp == st.currentPile
              IN IF st.cardPool = <<>> /\ NoLaterPile(st)
                 THEN Sessions' = Sessions /\ Connections' = Connections
                 ELSE /\ ~crashed'
                      /\ Sessions'[s].drafting
                      /\ Sessions'[s].winstonDraftState.piles[cp + 1]
                            = IF st.cardPool = <<>> THEN st.piles[cp + 1]
                              ELSE Append(st.piles[cp + 1], Popped(st.cardPool))
                      /\ Sessions'[s].winstonDraftState.currentPile > cp
                      /\ Sessions'[s].winstonDraftState.currentPile <= 2
                      /\ Sessions'[s].winstonDraftState.piles[
                            Sessions'[s].winstonDraftState.currentPile + 1] # <<>>
                      /\ \A j \in 0..2 :
                            (cp < j /\ j < Sessions'[s].winstonDraftState.currentPile)
                               => st.piles[j + 1] = <<>>
                      /\ Sessions'[s].winstonDraftState.round = st.round
                      /\ currentPlayer(Sessions'[s].winstonDraftState) = u
                      /\ \A v \in DOMAIN Connections :
                            /\ v \in DOMAIN Connections'
                            /\ Connections'[v].pickedCards = Connections[v].pickedCards]_vars

\* two skips have been accepted in a round: the first two piles hold two
\* cards each and the last pile is the current one
C31_Witness ==
    \E s \in DOMAIN Sessions :
        /\ WinstonRunning(s)
        /\ Sessions[s].winstonDraftState.currentPile = 2
        /\ Len(Sessions[s].winstonDraftState.piles[1]) = 2
        /\ Len(Sessions[s].winstonDraftState.piles[2]) = 2

-----------------------------------------------------------------------------
(* The collection of a session *)

\* the card database: two cards that boosters may hold, a common and a rare,
\* and one that they may not
Cards ==
    [c \in 1..3 |-> [in_booster |-> c # 3,
                     rarity |-> IF c = 1 THEN "common" ELSE "rare"]]
maxDuplicates == [common |-> 8, uncommon |-> 4, rare |-> 2, mythic |-> 1]

\* Connections[u].useCollection && !isEmpty(Connections[u].collection)
UsesCollection(profile) == profile.useCollection /\ DOMAIN profile.collection # {}

RECURSIVE Shave(_, _, _, _)
\* "Shave every useless card id", from user i on
Shave(intersection, user_list, profiles, i) ==
    IF i > Len(user_list) THEN intersection
    ELSE Shave(IF UsesCollection(profiles[user_list[i]])
               THEN {c \in DOMAIN profiles[user_list[i]].collection : c \in intersection}
               ELSE intersection,
               user_list, profiles, i + 1)

RECURSIVE MinimumCount(_, _, _, _, _)
\* "Compute the minimum count of each remaining card", from user i on
MinimumCount(count, c, user_list, profiles, i) ==
    IF i > Len(user_list) THEN count
    ELSE MinimumCount(IF UsesCollection(profiles[user_list[i]])
                      THEN IF count < profiles[user_list[i]].collection[c] THEN count
                           ELSE profiles[user_list[i]].collection[c]
                      ELSE count,
                      c, user_list, profiles, i + 1)

\* Session.collection, user_list being [...this.users]
collection(useCustomCardList, customCardList, ignoreCollections, user_list, profiles) ==
    IF useCustomCardList
    THEN [c \in Range(customCardList) |-> Copies(customCardList, c)]
    ELSE IF ignoreCollections
            \/ \A i \in 1..Len(user_list) : ~UsesCollection(profiles[user_list[i]])
    THEN [c \in {x \in DOMAIN Cards : Cards[x].in_booster} |->
             maxDuplicates[Cards[c].rarity]]
    ELSE LET first == profiles[user_list[1]]
             start == IF ~UsesCollection(first)
                      THEN {c \in DOMAIN Cards : Cards[c].in_booster}
                      ELSE {c \in DOMAIN first.collection :
                               c \in DOMAIN Cards /\ Cards[c].in_booster}
         IN [c \in Shave(start, user_list, profiles, 2) |->
                MinimumCount(IF UsesCollection(first) THEN first.collection[c] ELSE 4,
                             c, user_list, profiles, 2)]

\* the collections a participant uploads: some cards, one or five copies of each
OwnedCounts == {1, 5}
OwnedCollections == UNION {[D -> OwnedCounts] : D \in SUBSET (DOMAIN Cards)}
UserLists == {<<"u1">>, <<"u1", "u2">>, <<"u2", "u1">>}
CustomCardLists == {<<1, 1, 2>>}

\* the calls of Session.collection that are followed
InitCollection ==
    /\ Connections = EmptyMap
    /\ Sessions = EmptyMap
    /\ request = NoRequest
    /\ emitted = <<>>
    /\ reply = NoReply
    /\ crashed = FALSE
    /\ generation \in
          {[phase |-> "asked", useCustomCardList |-> custom, customCardList |-> list,
            ignoreCollections |-> ignore, users |-> user_list,
            profiles |-> [u \in UserIDs |->
                             [useCollection |-> IF u = "u1" THEN use1 ELSE use2,
                              collection |-> IF u = "u1" THEN coll1 ELSE coll2]],
            result |-> EmptyMap] :
              custom \in BOOLEAN, list \in CustomCardLists, ignore \in BOOLEAN,
              user_list \in UserLists, use1 \in BOOLEAN, use2 \in BOOLEAN,
              coll1 \in OwnedCollections, coll2 \in OwnedCollections}

\* Session.collection() returns
CallCollection ==
    /\ generation.phase = "asked"
    /\ generation' =
          [generation EXCEPT
             !.phase = "collected",
             !.result = collection(generation.useCustomCardList, generation.customCardList,
                                   generation.ignoreCollections, generation.users,
                                   generation.profiles)]
    /\ UNCHANGED <<Connections, Sessions, request, emitted, reply, crashed>>

NextCollection == CallCollection

SpecCollection == InitCollection /\ [][NextCollection]_vars

\* the participants of the list that use a collection
Using(g) == {u \in Range(g.users) : UsesCollection(g.profiles[u])}

\* the least owned count of card c over the participants us
LeastOwned(g, us, c) ==
    CHOOSE n \in {g.profiles[u].collection[c] : u \in us} :
        \A u \in us : n <= g.profiles[u].collection[c]

\* the same list of participants the other way round
Reversed(seq) == [i \in 1..Len(seq) |-> seq[Len(seq) + 1 - i]]

\* C32: without a custom list and with ignoreCollections off, the collection
\* of a session holds the cards every participant using a collection owns,
\* each with the least owned count over these participants, whatever the
\* order of the participants and whoever else is in the session
C32_CollectionIntersection ==
    (/\ generation.phase = "collected"
     /\ ~generation.useCustomCardList
     /\ ~generation.ignoreCollections
     /\ Using(generation) # {}) =>
        /\ generation.result =
              [c \in {x \in DOMAIN Cards :
                         /\ Cards[x].in_booster
                         /\ \A u \in Using(generation) :
                               x \in DOMAIN generation.profiles[u].collection} |->
                  LeastOwned(generation, Using(generation), c)]
        /\ generation.result =
              collection(FALSE, generation.customCardList, FALSE,
                         Reversed(generation.users), generation.profiles)

-----------------------------------------------------------------------------
(* Membership *)

\* C33: a connected participant is in the users of a session exactly when its
\* sessionID names that session, and so is a member of at most one session
C33_MemberOfNamedSession ==
    ~crashed =>
       \A u \in DOMAIN Connections, s \in DOMAIN Sessions :
           Includes(Sessions[s].users, u) <=> Connections[u].sessionID = s

-----------------------------------------------------------------------------
(* The countdown *)

-----------------------------------------------------------------------------
(* The current pile of a Winston draft *)

\* C35: while a Winston draft is active, currentPile is one of the three
\* piles and that pile holds a card
C35_CurrentPileHoldsCard ==
    \A s \in DOMAIN Sessions :
        (/\ Sessions[s].drafting
         /\ Sessions[s].winstonDraftState.active
         /\ Sessions[s].winstonDraftState.hasPiles) =>
            /\ Sessions[s].winstonDraftState.currentPile \in 0..2
            /\ Sessions[s].winstonDraftState.piles[
                  Sessions[s].winstonDraftState.currentPile + 1] # <<>>

\* a skip has passed over the empty second pile: the first pile holds cards,
\* the second none, and the third is the current one
C35_Witness ==
    \E s \in DOMAIN Sessions :
        /\ WinstonRunning(s)
        /\ Sessions[s].winstonDraftState.currentPile = 2
        /\ Sessions[s].winstonDraftState.piles[1] # <<>>
        /\ Sessions[s].winstonDraftState.piles[2] = <<>>

-----------------------------------------------------------------------------
(* The end of a Winston draft *)

\* a take or a skip that is accepted
WinstonTurn ==
    /\ \E u \in UserIDs, take \in BOOLEAN : WinstonDraftPile(u, take)
    /\ Sessions' # Sessions \/ Connections' # Connections

(* Turns: in one room two participants play Winston drafts of two or three  *)
(* boosters and stay; the player whose turn it is goes on taking or         *)
(* skipping.                                                                 *)
NextWinstonTurns ==
    \/ \E u \in UserIDs, s \in HomeSessions : Connect(u, s)
    \/ \E u \in UserIDs, n \in WinstonCounts, gen \in WinstonPacks :
          \E cardPool \in Shuffles(Flatten([i \in 1..n |-> gen.pack])) :
              StartWinstonDraft(u, n, gen, cardPool)
    \/ \E u \in UserIDs, take \in BOOLEAN : WinstonDraftPile(u, take)

SpecWinstonTurns == Init /\ [][NextWinstonTurns]_vars /\ WF_vars(WinstonTurn)

\* a Winston draft is going on in session s
WinstonActive(s) ==
    /\ s \in DOMAIN Sessions
    /\ Sessions[s].drafting
    /\ Sessions[s].winstonDraftState.active

\* the Winston draft of session s has just ended
WinstonEnded(s) ==
    /\ s \in DOMAIN Sessions
    /\ ~Sessions[s].drafting
    /\ ~Sessions[s].winstonDraftState.active
    /\ Sent(emitted, "winstonDraftEnd")

\* C36: a Winston draft terminates: whatever was skipped or rejected, the
\* current pile of a draft that goes on holds a card for the player to take,
\* and when the player whose turn it is goes on taking or skipping the draft
\* ends: winstonDraftEnd is sent and the session is no longer drafting
C36_WinstonTerminates ==
    /\ [](\A s \in SessionIDs :
             (WinstonActive(s) /\ Sessions[s].winstonDraftState.hasPiles) =>
                 /\ currentPlayer(Sessions[s].winstonDraftState) \in DOMAIN Connections
                 /\ Sessions[s].winstonDraftState.currentPile < 3
                 /\ Sessions[s].winstonDraftState.piles[
                       Sessions[s].winstonDraftState.currentPile + 1] # <<>>)
    /\ \A s \in SessionIDs : WinstonActive(s) ~> WinstonEnded(s)

\* a Winston draft has ended and its players hold the cards they took
C36_Witness ==
    \E s \in SessionIDs :
        /\ WinstonEnded(s)
        /\ \E u \in DOMAIN Connections : Connections[u].pickedCards # <<>>

-----------------------------------------------------------------------------
(* The rarest card of a booster *)

\* the rarities above maxRarity
Above(maxRarity) ==
    IF maxRarity = "common" THEN {"uncommon", "rare", "mythic"}
    ELSE IF maxRarity = "uncommon" THEN {"rare", "mythic"}
    ELSE IF maxRarity = "rare" THEN {"mythic"}
    ELSE {}

\* C37: no generated booster holds a card of a rarity above maxRarity,
\* with the foil option on or off
C37_MaxRarityBounds ==
    generation.phase # "none" =>
        \A i \in 1..Len(Generated) :
            \A k \in Above(generation.maxRarity) : Generated[i][k] = 0

-----------------------------------------------------------------------------
(* Sealed boosters during a draft *)

\* participant u sends distributeSealed while its session runs a traditional
\* draft
SealedDuringDraft(u, n, gens) ==
    /\ u \in DOMAIN Connections
    /\ InSession(u)
    /\ Sessions[Connections[u].sessionID].drafting
    /\ ~Sessions[Connections[u].sessionID].winstonDraftState.active
    /\ DistributeSealed(u, n, gens)

\* C38: a distributeSealed request sent while the session is drafting leaves
\* the boosters of the draft, its round and every participant's boosterIndex
\* as they were, so that every pending pick still finds its booster
C38_SealedLeavesDraft ==
    [][\A u \in UserIDs, n \in SealedCounts, gens \in SealedOutcomes :
          SealedDuringDraft(u, n, gens) =>
              LET s == Connections[u].sessionID
              IN /\ ~crashed'
                 /\ s \in DOMAIN Sessions'
                 /\ Sessions'[s].boosters = Sessions[s].boosters
                 /\ Sessions'[s].round = Sessions[s].round
                 /\ \A v \in DOMAIN Connections :
                       /\ v \in DOMAIN Connections'
                       /\ Connections'[v].boosterIndex = Connections[v].boosterIndex]_vars

-----------------------------------------------------------------------------
(* The picks of a round *)

\* the human seats of sess that have picked this round: connected members
\* and entries of disconnectedUsers
PickedSeats(sess) ==
    {u \in Range(sess.users) : u \in DOMAIN Connections /\ Connections[u].pickedThisRound}
       \cup {u \in DOMAIN sess.disconnectedUsers : sess.disconnectedUsers[u].pickedThisRound}

\* C39: while a traditional draft runs, pickedCardsThisRound is the number of
\* human seats whose pickedThisRound flag is set
C39_PickedCountMatchesFlags ==
    ~crashed =>
       \A s \in DOMAIN Sessions :
           (Sessions[s].drafting /\ ~Sessions[s].winstonDraftState.active) =>
               Sessions[s].pickedCardsThisRound = Cardinality(PickedSeats(Sessions[s]))

====
